---- MODULE Spec2Model ----
(***************************************************************************)
(* Model of the feishu-bridge daemon (kitty-enhance/feishu-bridge):        *)
(* the pending store (STATE_DIR/*.json), the housekeeping loop, the        *)
(* dual-channel intake with its dedup ledger, and the reply router.        *)
(*                                                                         *)
(* Time is counted in ticks of 100 seconds: the 300 s horizons of the      *)
(* source are 3 ticks.  Python dicts are functions whose DOMAIN is the set *)
(* of keys present, so d.get(k, default) is Get(d, k, default).  Texts are *)
(* sequences of tokens; a token is a string the code never looks inside    *)
(* except through the tables Lower / IsDigits below.                       *)
(***************************************************************************)
EXTENDS Integers, Sequences, FiniteSets, TLC

\* ---------------------------------------------------------------- bounds

MaxTime == 5
MaxRecords == 2
MaxMsgs == 2
MaxInvocations == 2

\* ------------------------------------------------------- program constants

\* daemon.py:296  cutoff = time.time() - 300   (ticks of 100 s)
SEEN_HORIZON == 3
\* daemon.py:372  now - v["timestamp"] > 300
COMMAND_HORIZON == 3
\* daemon.py:318  page_size=10
PAGE_SIZE == 10
\* daemon.py:194  command_max_length, default 500 characters
COMMAND_MAX_LENGTH == 500

Windows == {1, 2}
Files == {"w1.json", "w2.json"}
MsgIds == 1..MaxMsgs
\* the transport accepts this many cards and confirmations, then fails
MaxOut == MaxRecords + 1
\* ------------------------------------------------------------ dict helpers

Get(d, k, default) == IF k \in DOMAIN d THEN d[k] ELSE default

Del(d, k) == [x \in (DOMAIN d) \ {k} |-> d[x]]

Put(d, k, v) == [x \in (DOMAIN d) \cup {k} |-> IF x = k THEN v ELSE d[x]]

EmptyDict == [x \in {} |-> 0]

\* ------------------------------------------------------------------ texts

\* str.lower() on the tokens the model uses
Lower(tok) ==
    CASE tok = "Y" -> "y"
      [] tok = "Enter to select" -> "enter to select"
      [] tok = "(Type something)" -> "(type something)"
      [] OTHER -> tok

TEXT_INPUT_MESSAGE_HINTS == {"waiting for your input", "waiting for input"}

PERMISSION_MESSAGE_HINTS == {"permission", "allow", "approve"}

SELECTION_SCREEN_HINTS == {"enter to select", "to navigate"}

TEXT_INPUT_CANCEL_WORDS == {"cancel"}

SELECTION_TEXT_INPUT_KEYWORDS == {"(type something)", "chat about this"}

\* the tokens of a screen that the fallback of the classifier looks for
\* ("需要确认" and "回复")
ConfirmNeededTok == "need-confirm"

ReplyInstrTok == "reply"

\* ------------------------------------------------------------ screen lines

Opt(i, t) == [kind |-> "opt", idx |-> i, text |-> t]

Txt(t) == [kind |-> "txt", idx |-> 0, text |-> t]

Blank == [kind |-> "blank", idx |-> 0, text |-> <<>>]

ScreenNames == {"perm", "sel3", "sel0", "confirm"}

ScreenText(name) ==
    CASE name = "sel3" ->
            << Txt(<<"Which approach?">>),
               Opt(1, <<"Foo">>),
               Opt(2, <<"Bar", "(Type something)">>),
               Opt(3, <<"Baz">>),
               Blank,
               Txt(<<"Enter to select">>) >>
      [] name = "sel0" ->
            << Txt(<<"Pick one">>), Txt(<<"Enter to select">>) >>
      [] name = "confirm" ->
            << Txt(<<"need-confirm">>), Txt(<<"reply">>) >>
      [] OTHER ->
            << Txt(<<"Bash command">>), Txt(<<"Do you want to proceed?">>) >>

ScreenTokens(lines) ==
    {Lower(lines[i].text[j]) : <<i, j>> \in
        {p \in (1..Len(lines)) \X (1..3) : p[2] <= Len(lines[p[1]].text)}}

\* the label written for an option the screen shows no text for ("选项 N")
NumTok(n) ==
    CASE n = 0 -> "0" [] n = 1 -> "1" [] n = 2 -> "2" [] n = 3 -> "3"
      [] n = 4 -> "4" [] OTHER -> "9"

Placeholder(n) == <<"option", NumTok(n)>>

IsPlaceholder(label) == Len(label) > 0 /\ label[1] = "option"

\* --------------------------------------------------- parse_selection_screen

HasKeyword_cased(text) ==
    \E j \in 1..Len(text) : text[j] \in SELECTION_TEXT_INPUT_KEYWORDS

HasKeyword(text) ==
    \E j \in 1..Len(text) : Lower(text[j]) \in SELECTION_TEXT_INPUT_KEYWORDS

RECURSIVE FillGaps(_, _)
FillGaps(options, idx) ==
    IF Len(options) < idx - 1
    THEN FillGaps(Append(options, Placeholder(Len(options) + 1)), idx)
    ELSE options

ParseInit ==
    [options |-> <<>>, text_input_indices |-> {}, descriptions |-> EmptyDict,
     first_option_line |-> -1, last_option_idx |-> 0]

ParseLine(acc, i, line) ==
    IF line.kind = "blank" THEN acc
    ELSE IF line.kind = "opt" THEN
        LET filled == FillGaps(acc.options, line.idx)
            opts == IF Len(filled) < line.idx
                    THEN Append(filled, IF line.text # <<>> THEN line.text
                                        ELSE Placeholder(line.idx))
                    ELSE filled
        IN [acc EXCEPT
              !.options = opts,
              !.text_input_indices =
                  IF HasKeyword(line.text) THEN @ \cup {line.idx} ELSE @,
              !.first_option_line = IF @ < 0 THEN i ELSE @,
              !.last_option_idx = line.idx]
    ELSE IF acc.first_option_line >= 0 /\ acc.last_option_idx > 0 THEN
        [acc EXCEPT !.descriptions =
            Put(@, acc.last_option_idx,
                Get(@, acc.last_option_idx, <<>>) \o line.text)]
    ELSE acc

RECURSIVE ParseLines(_, _, _)
ParseLines(lines, i, acc) ==
    IF i > Len(lines) THEN acc
    ELSE ParseLines(lines, i + 1, ParseLine(acc, i - 1, lines[i]))

\* options[idx - 1] = desc for every placeholder that has a description
FillFromDescriptions(options, descriptions) ==
    [k \in 1..Len(options) |->
        IF k \in DOMAIN descriptions /\ IsPlaceholder(options[k])
        THEN descriptions[k] ELSE options[k]]

parse_selection_screen(lines) ==
    LET acc == ParseLines(lines, 1, ParseInit)
        question ==
            IF acc.first_option_line > 0
            THEN SelectSeq(SubSeq(lines, 1, acc.first_option_line),
                           LAMBDA l : l.kind # "blank")
            ELSE <<>>
    IN [question |-> question,
        options |-> FillFromDescriptions(acc.options, acc.descriptions),
        text_input_indices |-> acc.text_input_indices,
        descriptions |-> acc.descriptions]

\* ---------------------------------------------------- _detect_pending_mode

Modes == {"permission", "text_input", "selection"}

\* a hook message that holds a permission phrase and an input phrase
BothHintsMessage == "allow it? waiting for your input"

\* the phrases k with "k in message"
MessageHints(message) ==
    IF message = BothHintsMessage THEN {"allow", "waiting for your input"}
    ELSE {message}

detect_pending_mode_hintfirst(pending) ==
    LET mode == Get(pending, "reply_mode", "")
        hints == MessageHints(Lower(Get(pending, "message", "")))
        toks == ScreenTokens(ScreenText(Get(pending, "screen_tail", "perm")))
    IN IF mode \in Modes THEN mode
       ELSE IF hints \cap TEXT_INPUT_MESSAGE_HINTS # {} THEN "text_input"
       ELSE IF hints \cap PERMISSION_MESSAGE_HINTS # {} THEN "permission"
       ELSE IF toks \cap SELECTION_SCREEN_HINTS # {} THEN "selection"
       ELSE IF ConfirmNeededTok \in toks /\ ReplyInstrTok \in toks
            THEN "text_input"
       ELSE "permission"

detect_pending_mode(pending) ==
    LET mode == Get(pending, "reply_mode", "")
        hints == MessageHints(Lower(Get(pending, "message", "")))
        toks == ScreenTokens(ScreenText(Get(pending, "screen_tail", "perm")))
    IN IF mode \in Modes THEN mode
       ELSE IF toks \cap SELECTION_SCREEN_HINTS # {} THEN "selection"
       ELSE IF hints \cap TEXT_INPUT_MESSAGE_HINTS # {} THEN "text_input"
       ELSE IF hints \cap PERMISSION_MESSAGE_HINTS # {} THEN "permission"
       ELSE IF ConfirmNeededTok \in toks /\ ReplyInstrTok \in toks
            THEN "text_input"
       ELSE "permission"


\* ------------------------------------------------------------------ state

VARIABLES
    now,               \* time.time(), in ticks
    config,            \* the fields __init__ reads from the configuration
    store,             \* STATE_DIR/*.json: file name -> pending dict
    registry,          \* registry.json: window -> status ("none" = absent)
    next_rid,          \* number of records the producer has written so far
    out,               \* messages the transport accepted (cards, confirmations);
                       \* the message id of out[i] is i
    mon,               \* _monitor_loop: position and locals
    seen_msgs,         \* _seen_msgs: message id -> first-seen time
    pending_commands,  \* _pending_commands: confirm message id -> command
    chat,              \* the operator's messages in the chat: id -> message
    poll,              \* _poll_loop: last_time cursor, listed page, running reply
    inv,               \* the _process_reply invocations so far (threads)
    expired            \* ids of the records the housekeeping pass expired

vars == <<now, config, store, registry, next_rid, out, mon, seen_msgs,
          pending_commands, chat, poll, inv, expired>>

\* every window has one file (the producer names the file after the window)
FileOf(w) == IF w = 1 THEN "w1.json" ELSE "w2.json"

Configs(waits, expires, ages) ==
    {c \in [wait_seconds : waits, expire_seconds : expires,
            max_message_age : ages, allowed_user_id : {"user"},
            command_max_length : {COMMAND_MAX_LENGTH},
            kitty_socket : {"unix:kitty"}] :
        c.wait_seconds < c.expire_seconds}

\* the clock starts at 1: a timestamp of 0 is what the code reads as "none"
InitWith(cfgs, regs) ==
    /\ now = 1
    /\ config \in cfgs
    /\ store = EmptyDict
    /\ registry \in regs
    /\ next_rid = 1
    /\ out = <<>>
    /\ mon = [pc |-> "idle", todo |-> {}, file |-> "", pending |-> EmptyDict]
    /\ seen_msgs = EmptyDict
    /\ pending_commands = EmptyDict
    /\ chat = EmptyDict
    /\ poll = [last_time |-> 1, todo |-> <<>>, busy |-> 0]
    /\ inv = <<>>
    /\ expired = {}

\* ------------------------------------------------------- environment: time

\* one tick is far longer than a housekeeping pass (its calls time out after
\* seconds), so the clock does not move inside a pass
Tick ==
    /\ now < MaxTime
    /\ mon.pc \in {"idle", "dead"}
    /\ now' = now + 1
    /\ UNCHANGED <<config, store, registry, next_rid, out, mon, seen_msgs,
                   pending_commands, chat, poll, inv, expired>>

\* --------------------------------------------- environment: the producer

HookMessages == {"permission", "waiting for your input", ""}

\* put(record): the hook replaces the whole record of its window
ProducerWrite(w, scr, msg) ==
    /\ next_rid <= MaxRecords
    /\ now + config.expire_seconds <= MaxTime  \* its whole life fits the clock
    /\ store' = Put(store, FileOf(w),
                    [window_id |-> w, timestamp |-> now, message |-> msg,
                     screen_tail |-> scr, rid |-> next_rid])
    /\ next_rid' = next_rid + 1
    /\ UNCHANGED <<now, config, registry, out, mon, seen_msgs,
                   pending_commands, chat, poll, inv, expired>>

\* a record some producer left without a timestamp, or not parseable at all
MalformedRecords(w) ==
    {[window_id |-> w, message |-> "permission", screen_tail |-> "perm",
      rid |-> next_rid],
     [corrupt |-> TRUE, rid |-> next_rid],
     [corrupt |-> TRUE, notobject |-> TRUE, rid |-> next_rid]}

ProducerWriteMalformed(w) ==
    /\ next_rid <= MaxRecords
    /\ now + config.expire_seconds <= MaxTime
    /\ \E r \in MalformedRecords(w) : store' = Put(store, FileOf(w), r)
    /\ next_rid' = next_rid + 1
    /\ UNCHANGED <<now, config, registry, out, mon, seen_msgs,
                   pending_commands, chat, poll, inv, expired>>

\* ------------------------------------------------------- _monitor_loop

IsCorrupt(rec) == "corrupt" \in DOMAIN rec

\* json.load succeeds on the file but returns a value that is no dict (a list,
\* a number, null): pending.get raises AttributeError
IsNotObject(rec) == "notobject" \in DOMAIN rec

\* for filepath in glob.glob(STATE_DIR/*.json)
MonitorBegin ==
    /\ mon.pc = "idle"
    /\ mon' = [mon EXCEPT !.pc = "scan", !.todo = DOMAIN store]
    /\ UNCHANGED <<now, config, store, registry, next_rid, out, seen_msgs,
                   pending_commands, chat, poll, inv, expired>>

IsExpired_late(age) == age > config.expire_seconds

\* age >= self.expire_seconds
IsExpired(age) == age >= config.expire_seconds

\* age >= self.wait_seconds and not pending.get("notified")
ShouldNotify(pending, age) ==
    age >= config.wait_seconds /\ ~Get(pending, "notified", FALSE)

\* the dict _process_pending builds before it sends the card
Enriched(pending) ==
    LET mode == detect_pending_mode(pending)
        withMode == Put(pending, "reply_mode", mode)
        parsed == parse_selection_screen(ScreenText(Get(pending, "screen_tail", "")))
    IN IF mode = "selection"
       THEN Put(Put(Put(Put(Put(withMode,
                "options", parsed.options),
                "option_count", Len(parsed.options)),
                "text_input_options", parsed.text_input_indices),
                "question", parsed.question),
                "descriptions", parsed.descriptions)
       ELSE withMode

\* _process_pending up to the send of the card (the read, expiry, the decision)
MonitorProcess(f) ==
    /\ mon.pc = "scan"
    /\ f \in mon.todo
    /\ IF f \notin DOMAIN store \/ IsCorrupt(store[f])
       THEN \* open / json.load raises; the loop logs it and goes on
            /\ mon' = [mon EXCEPT !.todo = @ \ {f}]
            /\ UNCHANGED <<store, expired>>
       ELSE LET pending == store[f]
                age == now - Get(pending, "timestamp", now)
            IN IF IsExpired(age)
               THEN /\ store' = Del(store, f)
                    /\ expired' = expired \cup {pending.rid}
                    /\ mon' = [mon EXCEPT !.todo = @ \ {f}]
               ELSE IF ShouldNotify(pending, age)
               THEN /\ mon' = [mon EXCEPT !.pc = "notify", !.todo = @ \ {f},
                                          !.file = f,
                                          !.pending = Enriched(pending)]
                    /\ UNCHANGED <<store, expired>>
               ELSE /\ mon' = [mon EXCEPT !.todo = @ \ {f}]
                    /\ UNCHANGED <<store, expired>>
    /\ UNCHANGED <<now, config, registry, next_rid, out, seen_msgs,
                   pending_commands, chat, poll, inv>>

WriteBack_misfiled(st, filepath, pending) ==
    Put(st, IF filepath = "w1.json" THEN "w2.json" ELSE "w1.json", pending)

\* open(filepath, "w"); json.dump(pending)
WriteBack(st, filepath, pending) == Put(st, filepath, pending)

\* msg_id = send_permission_message(pending); if msg_id: mark and write back
MonitorNotify(ok) ==
    /\ mon.pc = "notify"
    /\ IF ok /\ Len(out) < MaxOut
       THEN LET msg_id == Len(out) + 1
                pending == Put(Put(mon.pending, "feishu_msg_id", msg_id),
                               "notified", TRUE)
            IN /\ out' = Append(out, [kind |-> "card", rid |-> pending.rid,
                                      ts |-> Get(pending, "timestamp", now),
                                      at |-> now,
                                      mode |-> pending.reply_mode])
               /\ store' = WriteBack(store, mon.file, pending)
       ELSE UNCHANGED <<out, store>>
    /\ mon' = [mon EXCEPT !.pc = "scan", !.file = "", !.pending = EmptyDict]
    /\ UNCHANGED <<now, config, registry, next_rid, seen_msgs,
                   pending_commands, chat, poll, inv, expired>>

\* _cleanup_seen_msgs: drop the entries first seen before time.time() - 300
cleanup_seen_msgs(seen) ==
    LET cutoff == now - SEEN_HORIZON
    IN [k \in {x \in DOMAIN seen : ~(seen[x] < cutoff)} |-> seen[k]]

\* the pending commands older than 5 minutes are dropped
cleanup_pending_commands(cmds, t) ==
    [k \in {x \in DOMAIN cmds : ~(t - cmds[x].timestamp > COMMAND_HORIZON)}
        |-> cmds[k]]

\* the end of one iteration: the periodic sweep, then sleep.  The sweep runs
\* when cleanup_interval (30 s, less than a tick) has passed since the last one:
\* the tick count cannot tell, so either may happen
MonitorSweep(due) ==
    /\ mon.pc = "scan"
    /\ mon.todo = {}
    /\ IF due
       THEN /\ pending_commands' = cleanup_pending_commands(pending_commands, now)
            /\ seen_msgs' = cleanup_seen_msgs(seen_msgs)
       ELSE UNCHANGED <<pending_commands, seen_msgs>>
    /\ mon' = [mon EXCEPT !.pc = "idle"]
    /\ UNCHANGED <<now, config, store, registry, next_rid, out, chat, poll,
                   inv, expired>>

Monitor ==
    \/ MonitorBegin
    \/ \E f \in Files : MonitorProcess(f)
    \/ \E ok \in BOOLEAN : MonitorNotify(ok)
    \/ \E due \in BOOLEAN : MonitorSweep(due)

\* the kinds of prompt a hook reports: <<screen, hook message>>
Prompts == {<<"perm", "permission">>, <<"perm", "waiting for your input">>,
            <<"sel3", "">>, <<"sel0", "permission">>, <<"confirm", "">>}

Producer(ws, prompts) ==
    \E w \in ws, p \in prompts : ProducerWrite(w, p[1], p[2])

\* ------------------------------------------------------- reply texts

\* A message text is [addr, body]: addr is the N of a leading "#N" (0 when the
\* text has none), body the rest as tokens.
\* "shi" and "fou" stand for the tokens "是" and "否"
YES_WORDS == {"y", "yes", "shi"}

NO_WORDS == {"n", "no", "fou"}

YN_WORDS == YES_WORDS \cup NO_WORDS

LowerText(body) == [j \in 1..Len(body) |-> Lower(body[j])]

\* text.lower() in words
LowerIn(body, words) == Len(body) = 1 /\ Lower(body[1]) \in words

\* int() of a token of digits, -1 for any other token
NumOf(tok) ==
    CASE tok = "0" -> 0 [] tok = "1" -> 1 [] tok = "2" -> 2 [] tok = "3" -> 3
      [] tok = "4" -> 4 [] tok = "9" -> 9 [] OTHER -> -1

\* len(text), in characters
TextLen(body) == IF \E j \in 1..Len(body) : body[j] = "LONG" THEN 501 ELSE Len(body)

\* ----------------------------------------------------------- parse_command

SCREEN_WORDS == {"screen", "progress", "log"}

parse_command(text) ==
    LET body == text.body IN
    IF text.addr = 0 THEN
        IF body = <<>> THEN [type |-> "unknown"]
        ELSE IF LowerIn(body, YN_WORDS) THEN [type |-> "permission_reply"]
        ELSE IF LowerIn(body, {"help", "?"}) THEN [type |-> "help"]
        ELSE IF LowerIn(body, {"ls", "list"}) THEN [type |-> "list_terminals"]
        ELSE [type |-> "ignore"]
    ELSE
        IF body = <<>> THEN [type |-> "terminal_detail"]
        ELSE IF Len(body) = 1 /\ body[1] \in SCREEN_WORDS THEN [type |-> "terminal_screen"]
        ELSE IF LowerIn(body, {"esc"}) THEN [type |-> "terminal_key", key |-> "esc"]
        ELSE IF LowerIn(body, {"ctrl+c"}) THEN [type |-> "terminal_key", key |-> "ctrl-c"]
        ELSE IF LowerIn(body, {"clear"}) THEN [type |-> "terminal_clear"]
        ELSE [type |-> "terminal_command"]

\* ------------------------------------------------------- terminal actions

\* one call of kitty_responder: send_keystroke (how = "text"), send_key
\* (how = "key") or clear_screen (how = "clear")
SendText(w, t) == [wid |-> w, how |-> "text", val |-> t]

SendKey(w, name) == [wid |-> w, how |-> "key", val |-> <<name>>]

ClearScreen(w) == [wid |-> w, how |-> "clear", val |-> <<>>]

CR == <<"CR">>

ESC == <<"ESC">>

Downs(w, n) == [j \in 1..n |-> SendKey(w, "down")]

\* --------------------------------------------------------- store lookups

Readable(f) == f \in DOMAIN store /\ ~IsCorrupt(store[f])

\* a lookup's loop over glob.glob(STATE_DIR/*.json) can come upon a file whose
\* JSON value is no dict: only JSONDecodeError and FileNotFoundError are caught
ScanRaises == \E f \in DOMAIN store : IsNotObject(store[f])

\* _find_pending_request(parent_id): the files whose card is parent_id
FindByParent(parent_id) ==
    {f \in Files : Readable(f) /\ Get(store[f], "feishu_msg_id", 0) = parent_id}

\* _find_pending_by_window(window_id): the notified files of that window
FindByWindow(w) ==
    {f \in Files : Readable(f) /\ Get(store[f], "window_id", 0) = w
                     /\ Get(store[f], "notified", FALSE)}

\* -------------------------------------------------------- the plan of a reply

\* What a handler decided from the record it read: the terminal calls to make
\* (keys), what to do with the file afterwards (fin: "remove", "escalate" or
\* "none") and what to tell the operator (ack, "" for nothing).
Plan(next, file, pending, keys, fin, ack) ==
    [next |-> next, file |-> file, pending |-> pending, keys |-> keys,
     fin |-> fin, ack |-> ack]

Hint(ack) == Plan("done", "", EmptyDict, <<>>, "none", ack)

OutOfRange_off(choice, option_count) == FALSE

\* if option_count and choice > option_count
OutOfRange(choice, option_count) == option_count # 0 /\ choice > option_count

\* the key sequence of the docstring: "4 text" -> 3 x Down + Enter + text + Enter
handle_selection_reply_twoenters(body, file, pending) ==
    LET wid == pending.window_id
        choice == IF body = <<>> THEN -1 ELSE NumOf(body[1])
        extra_text == IF body = <<>> THEN <<>> ELSE Tail(body)
        option_count == Get(pending, "option_count", 0)
        text_input_options == Get(pending, "text_input_options", {})
    IN IF LowerIn(body, {"esc", "cancel"})
       THEN Plan("act", file, pending, <<SendKey(wid, "escape")>>, "remove",
                 "selection_cancelled")
       ELSE IF choice = -1 THEN Hint("usage_selection")
       ELSE IF choice < 1 THEN Hint("usage_from_one")
       ELSE IF OutOfRange(choice, option_count) THEN Hint("usage_range")
       ELSE IF choice \in text_input_options
       THEN IF extra_text # <<>>
            THEN Plan("act", file, pending,
                      Downs(wid, choice - 1) \o
                          <<SendKey(wid, "enter"), SendText(wid, extra_text),
                            SendKey(wid, "enter")>>,
                      "remove", "selected")
            ELSE Plan("act", file, pending, Downs(wid, choice - 1),
                      "escalate", "escalated")
       ELSE Plan("act", file, pending,
                 Downs(wid, choice - 1) \o <<SendKey(wid, "enter")>>,
                 "remove", "selected")

\* _handle_selection_reply
handle_selection_reply(body, file, pending) ==
    LET wid == pending.window_id
        choice == IF body = <<>> THEN -1 ELSE NumOf(body[1])
        extra_text == IF body = <<>> THEN <<>> ELSE Tail(body)
        option_count == Get(pending, "option_count", 0)
        text_input_options == Get(pending, "text_input_options", {})
    IN IF LowerIn(body, {"esc", "cancel"})
       THEN Plan("act", file, pending, <<SendKey(wid, "escape")>>, "remove",
                 "selection_cancelled")
       ELSE IF choice = -1 THEN Hint("usage_selection")
       ELSE IF choice < 1 THEN Hint("usage_from_one")
       ELSE IF OutOfRange(choice, option_count) THEN Hint("usage_range")
       ELSE IF choice \in text_input_options
       THEN IF extra_text # <<>>
            THEN Plan("act", file, pending,
                      Downs(wid, choice - 1) \o
                          <<SendText(wid, extra_text), SendKey(wid, "enter")>>,
                      "remove", "selected")
            ELSE Plan("act", file, pending, Downs(wid, choice - 1),
                      "escalate", "escalated")
       ELSE Plan("act", file, pending,
                 Downs(wid, choice - 1) \o <<SendKey(wid, "enter")>>,
                 "remove", "selected")

handle_text_input_reply_bare(body, file, pending, wid) ==
    IF LowerIn(body, TEXT_INPUT_CANCEL_WORDS)
    THEN Plan("finish", file, pending, <<>>, "remove", "input_cancelled")
    ELSE Plan("act", file, pending, <<SendText(wid, body)>>, "remove", "text_sent")

\* the text_input branch of _handle_parent_reply and _handle_terminal_command
handle_text_input_reply(body, file, pending, wid) ==
    IF LowerIn(body, TEXT_INPUT_CANCEL_WORDS)
    THEN Plan("finish", file, pending, <<>>, "remove", "input_cancelled")
    ELSE Plan("act", file, pending, <<SendText(wid, body), SendText(wid, CR)>>,
              "remove", "text_sent")

PermissionKeys_accept(wid, lower) == <<[wid |-> wid, how |-> "text", val |-> <<"CR">>]>>

\* the keystroke of a y/n answer
PermissionKeys(wid, lower) ==
    <<SendText(wid, IF lower[1] \in YES_WORDS THEN CR ELSE ESC)>>

PermissionAck(lower) == IF lower[1] \in YES_WORDS THEN "allowed" ELSE "denied"

\* _handle_permission_reply, from its own lookup of the record on
handle_permission_reply(lower, file, pending) ==
    IF detect_pending_mode(pending) = "text_input"
    THEN Plan("act", file, pending,
              <<SendText(pending.window_id, lower), SendText(pending.window_id, CR)>>,
              "remove", "text_sent")
    ELSE Plan("act", file, pending, PermissionKeys(pending.window_id, lower),
              "remove", PermissionAck(lower))

\* _handle_parent_reply once the record of the card is found
handle_parent_reply(body, file, pending) ==
    LET mode == detect_pending_mode(pending) IN
    IF mode = "selection" THEN handle_selection_reply(body, file, pending)
    ELSE IF mode = "text_input"
    THEN handle_text_input_reply(body, file, pending, pending.window_id)
    ELSE IF LowerIn(body, YN_WORDS)
    THEN Plan("perm", "", EmptyDict, <<>>, "none", "")
    ELSE Hint("usage_permission")

\* info.get("kitty_socket") or self._detect_socket(): the configured socket
\* stands for whatever socket can be found for a window
HasSocket == config.kitty_socket # ""

\* _send_command_to_terminal
send_command_to_terminal(w, body) ==
    IF ~HasSocket THEN Hint("no_socket")
    ELSE Plan("act", "", EmptyDict, <<SendText(w, body), SendText(w, CR)>>, "none",
              "sent_to_terminal")

handle_window_reply_unguarded(w, body, file, pending) ==
    send_command_to_terminal(w, body)

\* _handle_terminal_command once the record of the window is found
handle_window_reply(w, body, file, pending) ==
    LET mode == detect_pending_mode(pending) IN
    IF mode = "selection" THEN handle_selection_reply(body, file, pending)
    ELSE IF mode = "text_input" THEN handle_text_input_reply(body, file, pending, w)
    ELSE IF LowerIn(body, YN_WORDS)
    THEN Plan("act", file, pending, PermissionKeys(w, LowerText(body)), "remove",
              PermissionAck(LowerText(body)))
    ELSE Hint("usage_permission_window")

handle_terminal_command_direct(w, body) ==
    IF registry[w] = "none" THEN Hint("no_terminal")
    ELSE IF TextLen(body) > config.command_max_length THEN Hint("too_long")
    ELSE send_command_to_terminal(w, body)

\* _handle_terminal_command when the window has no notified record
handle_terminal_command(w, body) ==
    IF registry[w] = "none" THEN Hint("no_terminal")
    ELSE IF TextLen(body) > config.command_max_length THEN Hint("too_long")
    ELSE IF registry[w] \in {"working", "waiting"}
    THEN Plan("confirm", "", EmptyDict, <<>>, "none", "")
    ELSE send_command_to_terminal(w, body)

\* _handle_terminal_key / _handle_terminal_clear
handle_terminal_key(w, call) ==
    IF registry[w] = "none" THEN Hint("no_terminal")
    ELSE IF ~HasSocket THEN Hint("no_socket")
    ELSE Plan("act", "", EmptyDict, <<call>>, "none", "key_sent")

\* the commands that never touch a terminal or the store
InfoAck(type) ==
    CASE type = "permission_reply" -> "reply_to_card_hint"
      [] type = "help" -> "help"
      [] type = "list_terminals" -> "terminal_list"
      [] type = "terminal_detail" -> "terminal_detail"
      [] type = "terminal_screen" -> "terminal_screen"
      [] OTHER -> ""

\* ------------------------------------------------- the operator's messages

Msg(addr, body, parent_id, sender) ==
    [text |-> [addr |-> addr, body |-> body], parent_id |-> parent_id,
     create_time |-> now, sender |-> sender]

\* the operator (or someone else in the chat) posts a text message; a reply to
\* a message carries no "#N"
OperatorSend(addr, body, parent_id, sender) ==
    /\ Cardinality(DOMAIN chat) < MaxMsgs
    /\ parent_id # 0 => (addr = 0 /\ parent_id <= Len(out))
    /\ chat' = Put(chat, Cardinality(DOMAIN chat) + 1,
                   Msg(addr, body, parent_id, sender))
    /\ UNCHANGED <<now, config, store, registry, next_rid, out, mon, seen_msgs,
                   pending_commands, poll, inv, expired>>

\* ------------------------------------------------------ dual-channel intake

SenderAllowed_any(sender) == TRUE

\* not (self._allowed_user_id and sender_id != self._allowed_user_id)
SenderAllowed(sender) ==
    ~(config.allowed_user_id # "" /\ sender # config.allowed_user_id)

\* _is_new_message: check and insert under _seen_lock
is_new_message(seen, m) == m \notin DOMAIN seen

mark_seen(seen, m) == IF m \in DOMAIN seen THEN seen ELSE Put(seen, m, now)

\* a callback that answers the operator itself before it hands the message on
Invocation_receipt(m, via) ==
    [msg |-> m, via |-> via, pc |-> "start", file |-> "", pending |-> EmptyDict,
     keys |-> <<>>, fin |-> "none", ack |-> "", sent |-> <<>>,
     acks |-> <<[to |-> 0, what |-> "received"]>>, rid |-> 0, mode |-> ""]

\* a thread that is about to run _process_reply for message m
Invocation(m, via) ==
    [msg |-> m, via |-> via, pc |-> "start", file |-> "", pending |-> EmptyDict,
     keys |-> <<>>, fin |-> "none", ack |-> "", sent |-> <<>>, acks |-> <<>>,
     rid |-> 0, mode |-> ""]

\* _handle_reply: the push callback, which the transport may repeat for a message
WsDeliver(m) ==
    /\ m \in DOMAIN chat
    /\ ~(chat[m].text.addr = 0 /\ chat[m].text.body = <<>>)
    /\ SenderAllowed(chat[m].sender)
    /\ is_new_message(seen_msgs, m)
    /\ Len(inv) < MaxInvocations
    /\ seen_msgs' = mark_seen(seen_msgs, m)
    /\ inv' = Append(inv, Invocation(m, "ws"))
    /\ UNCHANGED <<now, config, store, registry, next_rid, out, mon,
                   pending_commands, chat, poll, expired>>

\* sort_type("ByCreateTimeAsc"): x comes before y in the listing
ListedBefore(x, y) ==
    \/ chat[x].create_time < chat[y].create_time
    \/ (chat[x].create_time = chat[y].create_time /\ x < y)

\* the page list_messages returns: the messages from start_time on, oldest first
list_messages(start_time) ==
    LET ids == {m \in DOMAIN chat : chat[m].create_time >= start_time}
        n == IF Cardinality(ids) < PAGE_SIZE THEN Cardinality(ids) ELSE PAGE_SIZE
    IN [k \in 1..n |->
          CHOOSE m \in ids : Cardinality({x \in ids : ListedBefore(x, m)}) = k - 1]

\* _process_reply runs in the poll thread itself; only do_send is a thread
PollIdle == IF poll.busy = 0 THEN TRUE ELSE inv[poll.busy].pc \in {"done", "confirm"}

\* msgs = self.feishu.list_messages(self._chat_id, last_time, page_size=10)
PollList ==
    /\ poll.todo = <<>>
    /\ PollIdle
    /\ list_messages(poll.last_time) # <<>>
    /\ poll' = [poll EXCEPT !.todo = list_messages(poll.last_time), !.busy = 0]
    /\ UNCHANGED <<now, config, store, registry, next_rid, out, mon, seen_msgs,
                   pending_commands, chat, inv, expired>>

\* one turn of "for m in msgs": dedup, sender filter, cursor, _process_reply
PollStep ==
    /\ poll.todo # <<>>
    /\ PollIdle
    /\ LET m == Head(poll.todo) IN
       IF ~is_new_message(seen_msgs, m)
       THEN /\ poll' = [poll EXCEPT !.todo = Tail(@), !.busy = 0]
            /\ UNCHANGED <<seen_msgs, inv>>
       ELSE IF ~SenderAllowed(chat[m].sender)
       THEN /\ seen_msgs' = mark_seen(seen_msgs, m)
            /\ poll' = [poll EXCEPT !.todo = Tail(@), !.busy = 0]
            /\ UNCHANGED inv
       ELSE /\ Len(inv) < MaxInvocations
            /\ seen_msgs' = mark_seen(seen_msgs, m)
            /\ inv' = Append(inv, Invocation(m, "poll"))
            /\ poll' = [poll EXCEPT !.todo = Tail(@),
                                    !.last_time = chat[m].create_time + 1,
                                    !.busy = Len(inv) + 1]
    /\ UNCHANGED <<now, config, store, registry, next_rid, out, mon,
                   pending_commands, chat, expired>>

\* ----------------------------------------------------------- _process_reply

TooOld_never(create_time) == FALSE

\* delay > self.max_message_age
TooOld(create_time) == create_time # 0 /\ now - create_time > config.max_message_age

Adopt(i, plan, acks) ==
    [inv EXCEPT ![i] = [@ EXCEPT
        !.pc = plan.next, !.file = plan.file,
        !.pending = IF plan.next = "done" THEN EmptyDict ELSE plan.pending,
        !.keys = plan.keys, !.fin = plan.fin, !.ack = plan.ack,
        !.acks = @ \o acks,
        !.rid = IF plan.file # "" THEN plan.pending.rid ELSE @,
        !.mode = IF plan.file # "" THEN detect_pending_mode(plan.pending) ELSE @]]

AckOf(parent_id, what) ==
    IF what = "" THEN <<>> ELSE <<[to |-> parent_id, what |-> what]>>

RouteCommand_fuzzy(i, text) ==
    LET latest == {f \in Files : /\ Readable(f) /\ Get(store[f], "notified", FALSE)
                                 /\ \A g \in Files :
                                       (Readable(g) /\ Get(store[g], "notified", FALSE))
                                           => Get(store[g], "timestamp", 0)
                                                <= Get(store[f], "timestamp", 0)}
    IN IF latest = {} THEN {Hint("")}
       ELSE {handle_parent_reply(text.body, f, store[f]) : f \in latest}

\* the command of a message that is no reply to a card or to a confirmation
RouteCommand(i, text) ==
    LET cmd == parse_command(text)
        w == text.addr
    IN IF cmd.type \in {"ignore", "unknown"} THEN {Hint("")}
       ELSE IF cmd.type = "terminal_command"
       THEN IF FindByWindow(w) # {}
            THEN {handle_window_reply(w, text.body, f, store[f]) : f \in FindByWindow(w)}
            ELSE {handle_terminal_command(w, text.body)}
       ELSE IF cmd.type = "terminal_key"
       THEN {handle_terminal_key(w, SendKey(w, cmd.key))}
       ELSE IF cmd.type = "terminal_clear"
       THEN {handle_terminal_key(w, ClearScreen(w))}
       ELSE {Hint(InfoAck(cmd.type))}

\* _execute_pending_command
execute_pending_command(lower, cmd) ==
    IF ~(lower[1] \in YES_WORDS) THEN Hint("send_cancelled")
    ELSE IF registry[cmd.window_id] = "none" THEN Hint("terminal_closed")
    ELSE IF ~HasSocket THEN Hint("no_socket")
    ELSE Plan("act", "", EmptyDict,
              <<SendText(cmd.window_id, cmd.text), SendText(cmd.window_id, CR)>>,
              "none", "force_sent")

\* what _execute_pending_command has told the operator when it returns without
\* a terminal call: with no socket, the failure message of
\* _send_command_to_terminal and then, unconditionally, the success reply
ConfirmAcks(parent_id, plan) ==
    IF plan.next # "done" THEN <<>>
    ELSE IF plan.ack = "no_socket"
    THEN <<[to |-> 0, what |-> "no_socket"],
           [to |-> parent_id, what |-> "force_sent"]>>
    ELSE AckOf(parent_id, plan.ack)

\* _process_reply from its start to the first read of the store or the registry
ProcessReplyStart(i) ==
    /\ i \in 1..Len(inv)
    /\ inv[i].pc = "start"
    /\ LET m == chat[inv[i].msg]
           body == m.text.body
           parent_id == m.parent_id
       IN IF TooOld(m.create_time)
          THEN /\ inv' = Adopt(i, Hint(""), <<>>)
               /\ UNCHANGED pending_commands
          ELSE IF parent_id # 0 /\ parent_id \in DOMAIN pending_commands
          THEN IF LowerIn(body, YN_WORDS)
               THEN LET plan == execute_pending_command(LowerText(body),
                                                        pending_commands[parent_id])
                    IN /\ pending_commands' = Del(pending_commands, parent_id)
                       /\ inv' = Adopt(i, plan, ConfirmAcks(parent_id, plan))
               ELSE /\ inv' = Adopt(i, Hint("usage_confirm"),
                                    AckOf(parent_id, "usage_confirm"))
                    /\ UNCHANGED pending_commands
          ELSE /\ UNCHANGED pending_commands
               /\ LET looksUp == parent_id # 0
                                   \/ parse_command(m.text).type = "terminal_command"
                      found == IF parent_id # 0 THEN FindByParent(parent_id)
                               ELSE FindByWindow(m.text.addr)
                  IN \/ \* the scan meets the non-dict file before a match:
                        \* AttributeError, caught by "except Exception" (711)
                        /\ looksUp /\ ScanRaises
                        /\ inv' = Adopt(i, Hint(""), <<>>)
                     \/ /\ ~(looksUp /\ ScanRaises /\ found = {})
                        /\ \E plan \in
                              IF parent_id # 0 /\ FindByParent(parent_id) # {}
                              THEN {handle_parent_reply(body, f, store[f]) :
                                        f \in FindByParent(parent_id)}
                              ELSE RouteCommand(i, m.text) :
                            inv' = Adopt(i, plan,
                                     IF plan.next = "done"
                                     THEN AckOf(IF FindByParent(parent_id) = {}
                                                THEN 0 ELSE parent_id, plan.ack)
                                     ELSE <<>>)
    /\ UNCHANGED <<now, config, store, registry, next_rid, out, mon, seen_msgs,
                   chat, poll, expired>>

\* _handle_permission_reply: it looks the record up again by the card's id
PermissionLookup(i) ==
    /\ i \in 1..Len(inv)
    /\ inv[i].pc = "perm"
    /\ LET m == chat[inv[i].msg]
           found == FindByParent(m.parent_id)
       IN IF found = {}
          THEN inv' = Adopt(i, Hint(""), <<>>)
          ELSE \/ /\ ScanRaises
                  /\ inv' = Adopt(i, Hint(""), <<>>)
               \/ \E f \in found :
                     inv' = Adopt(i, handle_permission_reply(LowerText(m.text.body),
                                                             f, store[f]), <<>>)
    /\ UNCHANGED <<now, config, store, registry, next_rid, out, mon, seen_msgs,
                   pending_commands, chat, poll, expired>>

\* the terminal calls of the handler, in order
SendKeys(i) ==
    /\ i \in 1..Len(inv)
    /\ inv[i].pc = "act"
    /\ inv' = [inv EXCEPT ![i] =
                 IF @.fin = "none"
                 THEN [@ EXCEPT !.pc = "done", !.sent = @ \o inv[i].keys,
                                !.keys = <<>>,
                                !.acks = @ \o AckOf(IF inv[i].ack = "force_sent"
                                                     THEN chat[inv[i].msg].parent_id
                                                     ELSE 0, inv[i].ack)]
                 ELSE [@ EXCEPT !.pc = "finish", !.sent = @ \o inv[i].keys,
                                !.keys = <<>>]]
    /\ UNCHANGED <<now, config, store, registry, next_rid, out, mon, seen_msgs,
                   pending_commands, chat, poll, expired>>

Escalated_unmarked(pending) == pending

Escalated_asPermission(pending) ==
    Put(Put(pending, "reply_mode", "permission"), "notified", TRUE)

\* matched_pending["reply_mode"] = "text_input"; matched_pending["notified"] = True
Escalated(pending) == Put(Put(pending, "reply_mode", "text_input"), "notified", TRUE)

Remove_kept(st, file) == st

\* os.remove(matched_file), FileNotFoundError ignored
Remove(st, file) == Del(st, file)

\* the handler's last steps: delete the file (or rewrite it, for an escalation),
\* then tell the operator
Finish(i) ==
    /\ i \in 1..Len(inv)
    /\ inv[i].pc = "finish"
    /\ store' = IF inv[i].fin = "escalate"
                THEN WriteBack(store, inv[i].file, Escalated(inv[i].pending))
                ELSE Remove(store, inv[i].file)
    /\ inv' = [inv EXCEPT ![i] =
                 [@ EXCEPT !.pc = "done", !.pending = EmptyDict,
                           !.acks = @ \o AckOf(chat[inv[i].msg].parent_id, inv[i].ack)]]
    /\ UNCHANGED <<now, config, registry, next_rid, out, mon, seen_msgs,
                   pending_commands, chat, poll, expired>>

\* do_send of _handle_terminal_command: the confirmation message, then the
\* PendingCommand keyed by its id
ConfirmSend(i, ok) ==
    /\ i \in 1..Len(inv)
    /\ inv[i].pc = "confirm"
    /\ LET m == chat[inv[i].msg] IN
       IF ok /\ Len(out) < MaxOut
       THEN /\ out' = Append(out, [kind |-> "confirm", rid |-> 0, ts |-> 0,
                                   at |-> now, mode |-> ""])
            /\ pending_commands' =
                   Put(pending_commands, Len(out) + 1,
                       [window_id |-> m.text.addr, text |-> m.text.body,
                        timestamp |-> now])
       ELSE UNCHANGED <<out, pending_commands>>
    /\ inv' = [inv EXCEPT ![i] = [@ EXCEPT !.pc = "done"]]
    /\ UNCHANGED <<now, config, store, registry, next_rid, mon, seen_msgs,
                   chat, poll, expired>>

Reply ==
    \/ \E i \in 1..MaxInvocations : ProcessReplyStart(i)
    \/ \E i \in 1..MaxInvocations : PermissionLookup(i)
    \/ \E i \in 1..MaxInvocations : SendKeys(i)
    \/ \E i \in 1..MaxInvocations : Finish(i)

\* the texts an operator types: <<N of "#N" (0 for none), body>>
Operator(texts, senders) ==
    \E t \in texts, parent_id \in 0..MaxOut, sender \in senders :
        OperatorSend(t[1], t[2], parent_id, sender)

\* the operator answers a record that has been notified: by replying to its
\* card, or by addressing its window
OperatorAnswers(texts) ==
    \E t \in texts, parent_id \in 0..MaxOut :
        /\ IF t[1] = 0 THEN parent_id # 0 /\ FindByParent(parent_id) # {}
                       ELSE parent_id = 0 /\ FindByWindow(t[1]) # {}
        /\ OperatorSend(t[1], t[2], parent_id, "user")

Push == \E m \in MsgIds : WsDeliver(m)

Poller == PollList \/ PollStep

\* ------------------------------------------- housekeeping on its own

RegIdle == [w \in Windows |-> "idle"]

InitExpiry == InitWith(Configs({1, 2}, {3}, {3}), {RegIdle})

NextExpiry ==
    \/ Tick
    \/ Producer(Windows, {<<"perm", "permission">>, <<"sel3", "">>})
    \/ Monitor

SpecExpiry == InitExpiry /\ [][NextExpiry]_vars


\* the step of the pass that handles file f
PassHandles(f) == mon.pc = "scan" /\ f \in mon.todo /\ f \notin mon'.todo

WellFormed(rec) == ~IsCorrupt(rec) /\ "timestamp" \in DOMAIN rec

Age(rec) == now - rec.timestamp

Notified(st, f) == f \in DOMAIN st /\ Get(st[f], "notified", FALSE)

CardsOf(rid) == {i \in 1..Len(out) : out[i].kind = "card" /\ out[i].rid = rid}

\* every card went out between T+N and T+E, and no record got two
CardsInWindowOnce ==
    \A i \in 1..Len(out) : out[i].kind = "card" =>
        /\ out[i].ts + config.wait_seconds <= out[i].at
        /\ out[i].at < out[i].ts + config.expire_seconds
        /\ Cardinality(CardsOf(out[i].rid)) = 1

\* what one pass does to a record, by its age and its notified flag
PassStep(f) ==
    LET rec == store[f] IN
    (PassHandles(f) /\ f \in DOMAIN store /\ WellFormed(rec)) =>
        /\ Age(rec) >= config.expire_seconds => f \notin DOMAIN store'
        /\ (Age(rec) < config.expire_seconds /\ Age(rec) >= config.wait_seconds
              /\ ~Notified(store, f))
             => (mon'.pc = "notify" /\ mon'.file = f /\ store' = store)
        /\ (Age(rec) < config.expire_seconds
              /\ (Age(rec) < config.wait_seconds \/ Notified(store, f)))
             => (mon'.pc = "scan" /\ store' = store /\ out' = out)

\* the send that follows: accepted, the record is marked with the card's id;
\* refused, it stays as it was and the next pass tries again
NotifyStep ==
    (mon.pc = "notify" /\ mon'.pc = "scan") =>
        \/ /\ Len(out') = Len(out) + 1
           /\ Notified(store', mon.file)
           /\ store'[mon.file].feishu_msg_id = Len(out')
           /\ store'[mon.file].rid = mon.pending.rid
        \/ /\ out' = out
           /\ store' = store

\* C6 (amended): a record created at T that no reply resolves, with
\* notify-after N < expire-after E, is notified at most once, never before T+N
\* and never from T+E on: every pass that finds it un-notified at an age in
\* [N, E) attempts the notification, an accepted send marks it notified and a
\* refused send leaves it for the next pass; the first pass at or after T+E
\* deletes it; a pass in between changes nothing.
C6_NotifiedAtMostOnceThenExpired ==
    /\ []CardsInWindowOnce
    /\ [][NotifyStep /\ \A f \in Files : PassStep(f)]_vars

\* C6 witness: a record that was notified and later expired
C6_Witness ==
    \E i \in 1..Len(out) : out[i].kind = "card" /\ out[i].rid \in expired

\* C6 as claimed: the first pass at or after T+N notifies the record, so a
\* notification attempt always leaves it notified
C6_Original_NotifiedAtFirstPass ==
    [][(mon.pc = "notify" /\ mon'.pc = "scan") => Notified(store', mon.file)]_vars

\* ------------------------------------------------ replies to notified records

ReplyTexts ==
    {<<0, <<"Y">>>>, <<0, <<"n">>>>, <<0, <<"2">>>>, <<0, <<"9">>>>,
     <<0, <<"hello">>>>, <<1, <<"shi">>>>, <<1, <<"2">>>>, <<1, <<"esc">>>>,
     <<1, <<"hello">>>>}

\* the replies are handled within one tick of the record's notification
InitReply == InitWith(Configs({0}, {3}, {3}), {RegIdle})

NextReply ==
    \/ Producer({1}, {<<"perm", "permission">>, <<"sel3", "">>, <<"sel0", "permission">>})
    \/ Monitor
    \/ OperatorAnswers(ReplyTexts)
    \/ Push
    \/ Reply

SpecReply == InitReply /\ [][NextReply]_vars

\* ------------------------------------------------------ the two channels

\* No prompt is pending here: the store stays empty, so a housekeeping pass
\* finds no file (only its sweep acts) and a message can only be a command.
IntakeTexts == {<<1, <<"ls">>>>}

InitIntake == InitWith(Configs({1}, {3}, {3, 5}), {RegIdle})

OperatorTypes(texts, senders) ==
    \E t \in texts, sender \in senders : OperatorSend(t[1], t[2], 0, sender)

NextIntake ==
    \/ Tick
    \/ OperatorTypes(IntakeTexts, {"user", "other"})
    \/ Push
    \/ Poller
    \/ MonitorBegin
    \/ \E due \in BOOLEAN : MonitorSweep(due)
    \/ \E i \in 1..MaxInvocations : ProcessReplyStart(i)
    \/ \E i \in 1..MaxInvocations : SendKeys(i)

SpecIntake == InitIntake /\ [][NextIntake]_vars

\* ------------------------------------- the store under writes of every kind

StoreTexts == {<<0, <<"2">>>>, <<0, <<"n">>>>, <<2, <<"n">>>>}

NextStore ==
    \/ Producer(Windows, {<<"perm", "permission">>, <<"sel3", "">>})
    \/ Monitor
    \/ OperatorAnswers(StoreTexts)
    \/ Push
    \/ Reply

SpecStore == InitReply /\ [][NextStore]_vars

\* ------------------------------------------- housekeeping, scheduled fairly

\* the loop never stops iterating, and the clock is not held back for ever by
\* passes that follow each other
NextLive ==
    \/ Tick
    \/ Producer({1}, {<<"perm", "permission">>})
    \/ (\E w \in Windows : ProducerWriteMalformed(w))
    \/ Monitor

SpecLive ==
    InitExpiry /\ [][NextLive]_vars /\ WF_vars(Monitor) /\ SF_vars(Tick)

\* ------------------------------------------------------ replies: vocabulary

\* the records a message addresses: the record of the card it replies to, or
\* the notified record of the window its "#N" names
Addressed(m) ==
    IF chat[m].parent_id # 0 THEN FindByParent(chat[m].parent_id)
    ELSE IF chat[m].text.addr # 0 THEN FindByWindow(chat[m].text.addr)
    ELSE {}

BodyOf(i) == chat[inv[i].msg].text.body

\* invocation i takes its first step: it reads the store and decides
StartStep(i) == inv[i].pc = "start" /\ inv'[i].pc # "start"

\* a "#N ..." text whose rest is one of the words parse_command keeps for itself
Reserved(m) ==
    chat[m].text.addr # 0 /\ parse_command(chat[m].text).type # "terminal_command"

\* the step ends the invocation with a hint and nothing else
HintOnly(i) ==
    /\ inv'[i].pc = "done"
    /\ inv'[i].keys = <<>>
    /\ inv'[i].sent = <<>>
    /\ inv'[i].acks # <<>>
    /\ store' = store

\* whatever an invocation decided to send is what it sends
KeysSent ==
    \A i \in 1..Len(inv) :
        (inv[i].pc = "act" /\ inv'[i].pc # "act") => inv'[i].sent = inv[i].keys

\* an invocation that decided to delete its file has deleted it when it is done
FileRemoved ==
    \A i \in 1..Len(inv) :
        (inv[i].pc = "finish" /\ inv'[i].pc = "done" /\ inv[i].fin = "remove")
            => inv[i].file \notin DOMAIN store'

\* C1 (as stated): of two replies with distinct message ids that matched the
\* same notified permission record, at most one sends keystrokes to the window.
C1_NoDoubleApply ==
    \A i, j \in 1..Len(inv) :
        (/\ i # j
         /\ inv[i].msg # inv[j].msg
         /\ inv[i].rid # 0
         /\ inv[i].rid = inv[j].rid
         /\ inv[i].mode = "permission"
         /\ inv[j].mode = "permission")
            => ~(inv[i].sent # <<>> /\ inv[j].sent # <<>>)

\* C2 (as stated): however often and whenever one message id is delivered, it
\* causes at most one terminal action and at most one acknowledgement in total.
C2_AtMostOneActionPerMessage ==
    \A m \in MsgIds :
        /\ Cardinality({i \in 1..Len(inv) : inv[i].msg = m /\ inv[i].sent # <<>>}) <= 1
        /\ Cardinality({i \in 1..Len(inv) : inv[i].msg = m /\ inv[i].acks # <<>>}) <= 1

\* C3 (as stated): a message id delivered by the push listener and by the poller
\* starts _process_reply for one of the two deliveries only.
C3_OneDeliveryProceeds ==
    ~ \E i, j \in 1..Len(inv) :
          inv[i].msg = inv[j].msg /\ inv[i].via = "ws" /\ inv[j].via = "poll"

\* C4: after any sequence of producer writes, housekeeping passes, notifications,
\* escalations and resolutions the store holds at most one record per window id.
C4_OneRecordPerWindow ==
    \A f, g \in DOMAIN store :
        (Readable(f) /\ Readable(g) /\ store[f].window_id = store[g].window_id)
            => f = g

C4_Witness ==
    /\ Cardinality(DOMAIN store) = 2
    /\ \E f \in DOMAIN store :
           /\ Get(store[f], "reply_mode", "") = "text_input"
           /\ "options" \in DOMAIN store[f]
    /\ \E i \in 1..Len(inv) : inv[i].pc = "done" /\ inv[i].fin = "escalate"

\* ------------------------------------------------------ selection escalation

\* a notified selection record whose option k asks for text
AsksForText(f, k) ==
    /\ detect_pending_mode(store[f]) = "selection"
    /\ k >= 1
    /\ ~OutOfRange(k, Get(store[f], "option_count", 0))
    /\ k \in Get(store[f], "text_input_options", {})

\* a record that a selection escalation left waiting for the operator's text
AwaitsText(f) ==
    Get(store[f], "reply_mode", "") = "text_input" /\ "options" \in DOMAIN store[f]

\* the reply of just `k` moves down k-1 times, sends no submit key and rewrites
\* the record as text_input, with its window and its card unchanged
EscalationKept ==
    \A i \in 1..Len(inv) :
        /\ \A f \in Addressed(inv[i].msg) :
              (StartStep(i) /\ Len(BodyOf(i)) = 1 /\ AsksForText(f, NumOf(BodyOf(i)[1])))
                  => /\ inv'[i].keys = Downs(store[f].window_id, NumOf(BodyOf(i)[1]) - 1)
                     /\ inv'[i].fin = "escalate"
                     /\ inv'[i].file = f
        /\ (inv[i].pc = "finish" /\ inv'[i].pc = "done" /\ inv[i].fin = "escalate")
              => /\ inv[i].file \in DOMAIN store'
                 /\ store'[inv[i].file].reply_mode = "text_input"
                 /\ store'[inv[i].file].window_id = inv[i].pending.window_id
                 /\ store'[inv[i].file].feishu_msg_id = inv[i].pending.feishu_msg_id
                 /\ store'[inv[i].file].rid = inv[i].pending.rid

\* the text t that follows is typed into the window, submitted, and the record
\* is then deleted
FollowUpTyped(i, f) ==
    /\ inv'[i].keys = <<SendText(store[f].window_id, BodyOf(i)),
                        SendText(store[f].window_id, CR)>>
    /\ inv'[i].fin = "remove"
    /\ inv'[i].file = f

OutsideOptions(f, body) ==
    /\ detect_pending_mode(store[f]) = "selection"
    /\ body # <<>>
    /\ NumOf(body[1]) # -1
    /\ NumOf(body[1]) \notin 1..Get(store[f], "option_count", 0)

\* C8 (amended): for a notified selection record whose stored option_count is at
\* least 1, a reply whose leading integer is outside 1..option_count produces a
\* usage hint only: no key is sent and the record stays in the store unchanged.
C8_OutOfRangeHint ==
    [][\A i \in 1..Len(inv) : \A f \in Addressed(inv[i].msg) :
          (/\ StartStep(i)
           /\ OutsideOptions(f, BodyOf(i))
           /\ Get(store[f], "option_count", 0) >= 1)
              => HintOnly(i)]_vars

C8_Witness ==
    \E i \in 1..Len(inv) :
        /\ inv[i].pc = "done"
        /\ BodyOf(i) = <<"9">>
        /\ inv[i].sent = <<>>
        /\ \E a \in 1..Len(inv[i].acks) : inv[i].acks[a].what = "usage_range"
        /\ \E f \in DOMAIN store : Get(store[f], "option_count", 0) = 3

\* C8 (as stated): the same for every stored option_count, a record whose parsed
\* option list is empty included.
C8_Original_AnyOptionCount ==
    [][\A i \in 1..Len(inv) : \A f \in Addressed(inv[i].msg) :
          (StartStep(i) /\ OutsideOptions(f, BodyOf(i))) => HintOnly(i)]_vars

\* -------------------------------------------------------- permission replies

\* a notified permission record and a word of the y/n vocabulary
PermissionAnswer(f, body) ==
    /\ Get(store[f], "notified", FALSE)
    /\ detect_pending_mode(store[f]) = "permission"
    /\ LowerIn(body, YN_WORDS)

\* the handler decides on the one keystroke for the window the record names
\* (accept for the affirmative words, cancel for the negative ones) and on
\* deleting the record
OneKeystroke(i, f) ==
    /\ inv'[i].pc = "act"
    /\ inv'[i].keys =
           <<SendText(store[f].window_id,
                      IF Lower(BodyOf(i)[1]) \in YES_WORDS THEN CR ELSE ESC)>>
    /\ inv'[i].fin = "remove"
    /\ inv'[i].file = f

\* C9: for a notified permission record a reply of y/yes/是 sends exactly one
\* accept keystroke to the window recorded in it and deletes the record, a reply
\* of n/no/否 sends exactly one cancel keystroke and deletes it, for replies to
\* the card (which look the record up a second time) and for "#N" replies.
C9_PermissionReply ==
    [][/\ KeysSent
       /\ FileRemoved
       /\ \A i \in 1..Len(inv) :
             LET m == chat[inv[i].msg] IN
             /\ \A f \in FindByWindow(m.text.addr) :
                   (StartStep(i) /\ m.parent_id = 0 /\ PermissionAnswer(f, m.text.body))
                       => OneKeystroke(i, f)
             /\ \A f \in FindByParent(m.parent_id) :
                   /\ (StartStep(i) /\ m.parent_id # 0 /\ PermissionAnswer(f, m.text.body))
                         => inv'[i].pc = "perm"
                   /\ (/\ inv[i].pc = "perm" /\ inv'[i].pc # "perm"
                       /\ PermissionAnswer(f, m.text.body))
                         => OneKeystroke(i, f)]_vars

C9_Witness ==
    \E i, j \in 1..Len(inv) :
        /\ inv[i].pc = "done" /\ inv[i].mode = "permission"
        /\ chat[inv[i].msg].parent_id # 0 /\ BodyOf(i) = <<"Y">>
        /\ inv[i].sent = <<SendText(1, CR)>>
        /\ inv[j].pc = "done" /\ inv[j].mode = "permission"
        /\ inv[j].rid # inv[i].rid /\ BodyOf(j) = <<"n">>
        /\ inv[j].sent = <<SendText(1, ESC)>>
        /\ store = EmptyDict

\* ---------------------------------------------------------- malformed replies

\* a text outside the y/n vocabulary for a permission record, a non-numeric
\* text that is no cancel word for a selection record
Malformed(f, body) ==
    /\ Get(store[f], "notified", FALSE)
    /\ \/ /\ detect_pending_mode(store[f]) = "permission"
          /\ ~LowerIn(body, YN_WORDS)
       \/ /\ detect_pending_mode(store[f]) = "selection"
          /\ (body = <<>> \/ NumOf(body[1]) = -1)
          /\ ~LowerIn(body, {"esc", "cancel"})

C7_EveryRecordEventuallyDeleted ==
    \A f \in Files : (f \in DOMAIN store) ~> (f \notin DOMAIN store)

\* ------------------------------------------------------------- stale messages

\* the message of invocation i was created more than max_message_age before now
Stale(i) == now - chat[inv[i].msg].create_time > config.max_message_age

\* C15: a message whose creation time is more than max_message_age before the
\* moment it is processed is dropped on both channels: no terminal call, no
\* change of the store, no outbound message.
C15_StaleDropped ==
    [][\A i \in 1..Len(inv) :
             (StartStep(i) /\ Stale(i))
                 => /\ inv'[i].pc = "done"
                    /\ inv'[i].keys = <<>>
                    /\ inv'[i].acks = <<>>
                    /\ store' = store
                    /\ out' = out
                    /\ pending_commands' = pending_commands]_vars

C15_Witness ==
    \E i, j \in 1..Len(inv) :
        /\ inv[i].via = "ws" /\ inv[j].via = "poll"
        /\ inv[i].pc = "done" /\ inv[j].pc = "done"
        /\ Stale(i) /\ Stale(j)
        /\ inv[i].sent = <<>> /\ inv[j].sent = <<>>
        /\ inv[i].acks = <<>> /\ inv[j].acks = <<>>

\* --------------------------------------------------------------- other senders

\* C16: with an expected sender configured, a message of any other sender never
\* starts _process_reply and never causes a terminal call, on either channel.
C16_OtherSendersIgnored ==
    \A i \in 1..Len(inv) :
        config.allowed_user_id # "" => chat[inv[i].msg].sender = config.allowed_user_id

C16_Witness ==
    \E m, n \in DOMAIN chat :
        /\ chat[m].sender = "other" /\ m \in DOMAIN seen_msgs
        /\ poll.last_time = 1 /\ poll.todo = <<>>
        /\ chat[n].sender = "user"
        /\ \E i \in 1..Len(inv) : inv[i].msg = n /\ inv[i].pc = "done"

\* ------------------------------------------------------------------ stored mode

\* file f holds the same interaction before and after the step, already notified
SameNotified(f) ==
    /\ Notified(store, f) /\ f \in DOMAIN store'
    /\ ~IsCorrupt(store[f]) /\ ~IsCorrupt(store'[f])
    /\ store'[f].rid = store[f].rid

\* C17: once a record is notified its stored reply mode changes in one way
\* only, from selection to text_input (the escalation); every other step that
\* keeps the record keeps its mode.
C17_ModeFixedOnceNotified ==
    [][\A f \in Files :
          SameNotified(f)
              => \/ Get(store'[f], "reply_mode", "") = Get(store[f], "reply_mode", "")
                 \/ /\ Get(store[f], "reply_mode", "") = "selection"
                    /\ Get(store'[f], "reply_mode", "") = "text_input"]_vars

C17_Witness ==
    \E f, g \in Files :
        /\ f # g
        /\ Notified(store, f) /\ Notified(store, g)
        /\ store[f].reply_mode = "text_input"
        /\ store[g].reply_mode = "permission"
        /\ \E i \in 1..Len(inv) : inv[i].pc = "done" /\ inv[i].fin = "escalate"

\* ------------------------------------------- commands to a busy window

\* window 1 is busy (working) or blocked (waiting), window 2 is idle
RegBusy == {[w \in Windows |-> IF w = 1 THEN st ELSE "idle"] : st \in {"working", "waiting"}}

ArbitrationTexts == {<<1, <<"ls">>>>, <<0, <<"Y">>>>, <<0, <<"n">>>>}

InitArbitration == InitWith(Configs({1}, {3}, {5}), RegBusy)

NextArbitration ==
    \/ Tick
    \/ Operator(ArbitrationTexts, {"user"})
    \/ Push
    \/ MonitorBegin
    \/ \E due \in BOOLEAN : MonitorSweep(due)
    \/ \E i \in 1..MaxInvocations : ProcessReplyStart(i)
    \/ \E i \in 1..MaxInvocations : SendKeys(i)
    \/ \E i \in 1..MaxInvocations, ok \in BOOLEAN : ConfirmSend(i, ok)

SpecArbitration == InitArbitration /\ [][NextArbitration]_vars

\* ------------------------------------------- a file that is no record

ScanTexts == {<<0, <<"Y">>>>, <<1, <<"n">>>>}

NextScan ==
    \/ Producer({1}, {<<"perm", "permission">>})
    \/ ProducerWriteMalformed(2)
    \/ Monitor
    \/ OperatorAnswers(ScanTexts)
    \/ Push
    \/ Reply

SpecScan == InitReply /\ [][NextScan]_vars

\* ------------------------------------------- the two steps of a write

\* with open(filepath, "w") as f: the file is created or cut to length 0, and
\* stays empty or partial until json.dump has written the record
Truncated(pending) == [corrupt |-> TRUE, torn |-> TRUE, rid |-> pending.rid]

IsTorn(rec) == "torn" \in DOMAIN rec

\* _process_pending: the send of the card, then the open of the file
MonitorOpen(ok) ==
    /\ mon.pc = "notify"
    /\ IF ok /\ Len(out) < MaxOut
       THEN LET msg_id == Len(out) + 1
                pending == Put(Put(mon.pending, "feishu_msg_id", msg_id),
                               "notified", TRUE)
            IN /\ out' = Append(out, [kind |-> "card", rid |-> pending.rid,
                                      ts |-> Get(pending, "timestamp", now),
                                      at |-> now,
                                      mode |-> pending.reply_mode])
               /\ store' = Put(store, mon.file, Truncated(pending))
               /\ mon' = [mon EXCEPT !.pc = "dump", !.pending = pending]
       ELSE /\ UNCHANGED <<out, store>>
            /\ mon' = [mon EXCEPT !.pc = "scan", !.file = "", !.pending = EmptyDict]
    /\ UNCHANGED <<now, config, registry, next_rid, seen_msgs,
                   pending_commands, chat, poll, inv, expired>>

\* json.dump(pending, f) and the close of the file
MonitorDump ==
    /\ mon.pc = "dump"
    /\ store' = WriteBack(store, mon.file, mon.pending)
    /\ mon' = [mon EXCEPT !.pc = "scan", !.file = "", !.pending = EmptyDict]
    /\ UNCHANGED <<now, config, registry, next_rid, out, seen_msgs,
                   pending_commands, chat, poll, inv, expired>>

\* the escalation of _handle_selection_reply: the open of the file
EscalateOpen(i) ==
    /\ i \in 1..Len(inv)
    /\ inv[i].pc = "finish"
    /\ inv[i].fin = "escalate"
    /\ store' = Put(store, inv[i].file, Truncated(inv[i].pending))
    /\ inv' = [inv EXCEPT ![i] = [@ EXCEPT !.pc = "dump"]]
    /\ UNCHANGED <<now, config, registry, next_rid, out, mon, seen_msgs,
                   pending_commands, chat, poll, expired>>

\* json.dump(matched_pending, f), then the reply to the operator
EscalateDump(i) ==
    /\ i \in 1..Len(inv)
    /\ inv[i].pc = "dump"
    /\ store' = WriteBack(store, inv[i].file, Escalated(inv[i].pending))
    /\ inv' = [inv EXCEPT ![i] =
                 [@ EXCEPT !.pc = "done", !.pending = EmptyDict,
                           !.acks = @ \o AckOf(chat[inv[i].msg].parent_id, inv[i].ack)]]
    /\ UNCHANGED <<now, config, registry, next_rid, out, mon, seen_msgs,
                   pending_commands, chat, poll, expired>>

\* the end of a handler that deletes its file
FinishRemove(i) == Finish(i) /\ inv[i].fin # "escalate"

\* the threads of the daemon with each write taken as the two steps it is
NextWrite ==
    \/ Producer({1}, {<<"sel3", "">>})
    \/ MonitorBegin
    \/ \E f \in Files : MonitorProcess(f)
    \/ \E ok \in BOOLEAN : MonitorOpen(ok)
    \/ MonitorDump
    \/ \E due \in BOOLEAN : MonitorSweep(due)
    \/ Operator({<<0, <<"2">>>>, <<1, <<"2">>>>}, {"user"})
    \/ Push
    \/ \E i \in 1..MaxInvocations : ProcessReplyStart(i)
    \/ \E i \in 1..MaxInvocations : SendKeys(i)
    \/ \E i \in 1..MaxInvocations : EscalateOpen(i)
    \/ \E i \in 1..MaxInvocations : EscalateDump(i)
    \/ \E i \in 1..MaxInvocations : FinishRemove(i)

SpecWrite == InitReply /\ [][NextWrite]_vars

\* ------------------------------------------- a terminal call that fails

\* a call of kitty_responder whose subprocess returns non-zero, times out or
\* is not found: the function logs it and returns None, as it does on success
Failed(call) == [call EXCEPT !.how = "failed"]

\* the terminal calls of the handler when kitty refuses them: the handler
\* cannot tell and goes on as SendKeys does
SendKeysFail(i) ==
    /\ i \in 1..Len(inv)
    /\ inv[i].pc = "act"
    /\ inv[i].keys # <<>>
    /\ LET failed == [k \in 1..Len(inv[i].keys) |-> Failed(inv[i].keys[k])] IN
       inv' = [inv EXCEPT ![i] =
                 IF @.fin = "none"
                 THEN [@ EXCEPT !.pc = "done", !.sent = @ \o failed,
                                !.keys = <<>>,
                                !.acks = @ \o AckOf(IF inv[i].ack = "force_sent"
                                                     THEN chat[inv[i].msg].parent_id
                                                     ELSE 0, inv[i].ack)]
                 ELSE [@ EXCEPT !.pc = "finish", !.sent = @ \o failed,
                                !.keys = <<>>]]
    /\ UNCHANGED <<now, config, store, registry, next_rid, out, mon, seen_msgs,
                   pending_commands, chat, poll, expired>>

NextTerminal ==
    \/ Producer({1}, {<<"perm", "permission">>, <<"sel3", "">>})
    \/ Monitor
    \/ OperatorAnswers({<<0, <<"Y">>>>, <<0, <<"2">>>>, <<1, <<"n">>>>})
    \/ Push
    \/ Reply
    \/ \E i \in 1..MaxInvocations : SendKeysFail(i)

SpecTerminal == InitReply /\ [][NextTerminal]_vars

\* ------------------------------------------- addressing of replies

RouteTexts == {<<0, <<"Y">>>>, <<0, <<"n">>>>, <<1, <<"hello">>>>}

NextRoute ==
    \/ Producer(Windows, {<<"perm", "permission">>})
    \/ Monitor
    \/ Operator(RouteTexts, {"user"})
    \/ Push
    \/ Reply

SpecRoute == InitReply /\ [][NextRoute]_vars

\* ------------------------------------------------------------- bare replies

\* message m is no reply to any message and names no window
Bare(m) == chat[m].parent_id = 0 /\ chat[m].text.addr = 0

NotifiedFiles == {f \in Files : Notified(store, f) /\ ~IsCorrupt(store[f])}

\* the notified records with the greatest creation timestamp
LatestNotified ==
    {f \in NotifiedFiles :
        \A g \in NotifiedFiles : store[g].timestamp <= store[f].timestamp}

\* C11 (amended): a reply with no parent id and no window address resolves no
\* interaction: a bare y/n word is answered with the hint to reply to the card
\* or to name the window, and no record is read, changed or deleted and no
\* keystroke is sent, however many windows are waiting.
C11_BareReplyHintOnly ==
    [][\A i \in 1..Len(inv) :
          (StartStep(i) /\ Bare(inv[i].msg) /\ LowerIn(BodyOf(i), YN_WORDS))
              => /\ inv'[i].pc = "done"
                 /\ inv'[i].file = ""
                 /\ inv'[i].keys = <<>>
                 /\ inv'[i].acks = <<[to |-> 0, what |-> "reply_to_card_hint"]>>
                 /\ store' = store]_vars

C11_Witness ==
    /\ Cardinality(NotifiedFiles) = 2
    /\ \E i \in 1..Len(inv) :
          /\ Bare(inv[i].msg) /\ LowerIn(BodyOf(i), YN_WORDS)
          /\ inv[i].pc = "done"
          /\ inv[i].acks = <<[to |-> 0, what |-> "reply_to_card_hint"]>>

\* C11 (as stated): a bare y/n is dispatched against the notified record with
\* the greatest creation timestamp.
C11_Original_LatestResolved ==
    [][\A i \in 1..Len(inv) :
          (StartStep(i) /\ Bare(inv[i].msg) /\ LowerIn(BodyOf(i), YN_WORDS)
             /\ NotifiedFiles # {})
              => inv'[i].file \in LatestNotified]_vars

\* ---------------------------------------------------- window-addressed replies

\* the records of window w, notified or not
OpenFor(w) == {f \in Files : Readable(f) /\ Get(store[f], "window_id", 0) = w}

\* C12 (as stated): "#N text" to a window with an open interaction is handled
\* as a reply to it: whatever is typed is typed by the record's handler, and the
\* text is not queued for a busy-window confirmation.
C12_WindowReplyFirst ==
    [][\A i \in 1..Len(inv) :
          LET m == inv[i].msg IN
          (StartStep(i) /\ chat[m].parent_id = 0 /\ chat[m].text.addr # 0
             /\ ~Reserved(m) /\ ~TooOld(chat[m].create_time)
             /\ OpenFor(chat[m].text.addr) # {})
              => /\ inv'[i].pc # "confirm"
                 /\ inv'[i].file \in OpenFor(chat[m].text.addr)]_vars

\* ------------------------------------------------------- command arbitration

Busy(w) == registry[w] \in {"working", "waiting"}

\* invocation i handles "#N text", a plain command for a busy window that has
\* no notified interaction
BusyCommand(i) ==
    LET m == chat[inv[i].msg] IN
    /\ m.parent_id = 0 /\ m.text.addr # 0
    /\ parse_command(m.text).type = "terminal_command"
    /\ ~(now - m.create_time > config.max_message_age)
    /\ FindByWindow(m.text.addr) = {}
    /\ Busy(m.text.addr)

\* the confirmation step of invocation i
ConfirmStep(i) == inv[i].pc = "confirm" /\ inv'[i].pc = "done"

\* invocation i answers yes to the confirmation message that holds cmd
Confirms(i, cmd) ==
    LET m == chat[inv[i].msg] IN
    /\ m.parent_id \in 1..Len(out)
    /\ out[m.parent_id].kind = "confirm"
    /\ LowerIn(m.text.body, YES_WORDS)
    /\ inv[i].sent = <<SendText(cmd.window_id, cmd.text), SendText(cmd.window_id, CR)>>

C14_StaleCommandNeverSent ==
    [][\A i \in 1..Len(inv) :
          LET m == chat[inv[i].msg] IN
          (StartStep(i) /\ m.parent_id \in DOMAIN pending_commands
             /\ now - pending_commands[m.parent_id].timestamp > COMMAND_HORIZON)
              => inv'[i].keys = <<>>]_vars

\* ------------------------------------------------------- malformed neighbours

\* the handler of invocation i gave up without a word and without a keystroke
Dropped(i) ==
    inv'[i].pc = "done" /\ inv'[i].acks = <<>> /\ inv'[i].keys = <<>>
        /\ inv'[i].file = ""

\* C18 (as stated): a malformed file never blocks the handling of the others:
\* a housekeeping pass goes on to the files after it, and a lookup by card id
\* or by window still finds the well-formed record a reply is addressed to.
C18_MalformedSkipped ==
    [][/\ \A f \in Files :
             (PassHandles(f) /\ f \in DOMAIN store /\ IsCorrupt(store[f]))
                 => (mon'.pc = "scan" /\ mon'.todo = mon.todo \ {f} /\ store' = store)
       /\ \A i \in 1..Len(inv) :
             IF StartStep(i)
             THEN (Addressed(inv[i].msg) # {} /\ ~Reserved(inv[i].msg)) => ~Dropped(i)
             ELSE (inv[i].pc = "perm" /\ inv'[i].pc # "perm"
                     /\ Addressed(inv[i].msg) # {}) => ~Dropped(i)]_vars

\* ---------------------------------------------------------------- torn writes

\* invocation i scans the files of the store in this step
LookupStep(i) ==
    LET m == chat[inv[i].msg] IN
    /\ StartStep(i)
    /\ ~(now - m.create_time > config.max_message_age)
    /\ m.parent_id \notin DOMAIN pending_commands
    /\ m.parent_id # 0 \/ parse_command(m.text).type = "terminal_command"

\* C19 (as stated): a reader that runs while a record is being written never
\* finds the file empty or partial: neither the housekeeping pass nor a lookup
\* of a reply reads a file between the open and the end of a write.
C19_NoTornRead ==
    [][/\ \A f \in Files :
             (PassHandles(f) /\ f \in DOMAIN store) => ~IsTorn(store[f])
       /\ \A i \in 1..Len(inv) :
             LookupStep(i) => \A f \in DOMAIN store : ~IsTorn(store[f])]_vars

\* ------------------------------------------------------ failed terminal calls

\* a terminal call of invocation i was refused
CallFailed(i) == \E k \in 1..Len(inv[i].sent) : inv[i].sent[k].how = "failed"

\* C20 (as stated): when a terminal call fails while a reply is applied, the
\* operator is sent a failure message and no success acknowledgement, and the
\* record stays in the store.
C20_FailureReported ==
    [][\A i \in 1..Len(inv) :
          (inv[i].pc = "finish" /\ inv'[i].pc = "done" /\ CallFailed(i))
              => /\ store' = store
                 /\ \A k \in (Len(inv[i].acks) + 1)..Len(inv'[i].acks) :
                       inv'[i].acks[k].what = "terminal_failed"
                 /\ Len(inv'[i].acks) > Len(inv[i].acks)]_vars

\* ------------------------------------------- the sweep and do_send together

\* The sweep's "[k for k, v in self._pending_commands.items() if ...]" runs
\* outside any try and without a lock while do_send of invocation i stores its
\* entry: the dict changes size under the iteration, which raises RuntimeError
\* in _monitor_loop; nothing catches it and the loop, the main thread, ends.
\* Whether the store falls inside the iteration is up to the scheduler:
\* MonitorSweep and ConfirmSend one after the other are the other outcomes.
MonitorSweepRace(i) ==
    /\ mon.pc = "scan"
    /\ mon.todo = {}
    /\ i \in 1..Len(inv)
    /\ inv[i].pc = "confirm"
    /\ Len(out) < MaxOut
    /\ out' = Append(out, [kind |-> "confirm", rid |-> 0, ts |-> 0,
                           at |-> now, mode |-> ""])
    /\ pending_commands' =
           Put(pending_commands, Len(out) + 1,
               [window_id |-> chat[inv[i].msg].text.addr,
                text |-> chat[inv[i].msg].text.body, timestamp |-> now])
    /\ inv' = [inv EXCEPT ![i] = [@ EXCEPT !.pc = "done"]]
    /\ mon' = [mon EXCEPT !.pc = "dead"]
    /\ UNCHANGED <<now, config, store, registry, next_rid, seen_msgs,
                   chat, poll, expired>>

NextSweep ==
    \/ Tick
    \/ Operator(ArbitrationTexts, {"user"})
    \/ Push
    \/ MonitorBegin
    \/ \E due \in BOOLEAN : MonitorSweep(due)
    \/ \E i \in 1..MaxInvocations : ProcessReplyStart(i)
    \/ \E i \in 1..MaxInvocations : SendKeys(i)
    \/ \E i \in 1..MaxInvocations, ok \in BOOLEAN : ConfirmSend(i, ok)
    \/ \E i \in 1..MaxInvocations : MonitorSweepRace(i)

SpecSweep == InitArbitration /\ [][NextSweep]_vars

\* ------------------------------------------- every mode, every addressing

AckTexts ==
    {<<0, <<"Y">>>>, <<1, <<"n">>>>, <<0, <<"cancel">>>>, <<1, <<"cancel">>>>,
     <<0, <<"hello">>>>, <<1, <<"hello">>>>, <<0, <<"1">>>>, <<1, <<"esc">>>>}

NextAck ==
    \/ Producer({1}, {<<"perm", "permission">>, <<"perm", "waiting for your input">>,
                      <<"sel3", "">>})
    \/ Monitor
    \/ OperatorAnswers(AckTexts)
    \/ Push
    \/ Reply

SpecAck == InitReply /\ [][NextAck]_vars

\* ------------------------------------------------- choices of a selection

\* a choice without and with text, by card reply and by "#1"
SelectTexts ==
    {<<0, <<"1">>>>, <<0, <<"3">>>>, <<0, <<"2", "hello">>>>,
     <<1, <<"1">>>>, <<1, <<"3">>>>, <<1, <<"2", "hello">>>>}

NextSelect ==
    \/ Producer({1}, {<<"sel3", "">>})
    \/ Monitor
    \/ OperatorAnswers(SelectTexts)
    \/ Push
    \/ \E i \in 1..MaxInvocations : ProcessReplyStart(i)
    \/ \E i \in 1..MaxInvocations : SendKeys(i)
    \/ \E i \in 1..MaxInvocations : Finish(i)

SpecSelect == InitReply /\ [][NextSelect]_vars

\* ------------------------------------------- texts over the length limit

\* "#1" texts within and over command_max_length, to a window that is idle
\* with no record, asks for free text, or shows a selection
LengthTexts == {<<1, <<"hello">>>>, <<1, <<"LONG">>>>, <<1, <<"2", "LONG">>>>}

NextLength ==
    \/ Producer({1}, {<<"perm", "waiting for your input">>, <<"sel3", "">>})
    \/ Monitor
    \/ OperatorAnswers(LengthTexts)
    \/ Push
    \/ \E i \in 1..MaxInvocations : ProcessReplyStart(i)
    \/ \E i \in 1..MaxInvocations : SendKeys(i)
    \/ \E i \in 1..MaxInvocations : Finish(i)

SpecLength == InitReply /\ [][NextLength]_vars

\* ------------------------------------ replies to one confirmation message

\* dict.get: the entry is read and left where it is
Pop_kept(d, key) == d

\* what dict.pop(key, None) leaves
Pop(d, key) == Del(d, key)

ConfirmTexts == {<<0, <<"Y">>>>, <<0, <<"n">>>>}

\* "#1 ls" for the busy window 1 has been answered with confirmation message 1
\* and is held under that id
InitConfirm ==
    /\ now = 1
    /\ config \in {[c EXCEPT !.kitty_socket = sock] :
                      c \in Configs({1}, {3}, {5}), sock \in {"", "unix:kitty"}}
    /\ store = EmptyDict
    /\ registry \in RegBusy
    /\ next_rid = 1
    /\ out = <<[kind |-> "confirm", rid |-> 0, ts |-> 0, at |-> 1, mode |-> ""]>>
    /\ mon = [pc |-> "idle", todo |-> {}, file |-> "", pending |-> EmptyDict]
    /\ seen_msgs = EmptyDict
    /\ pending_commands =
           Put(EmptyDict, 1, [window_id |-> 1, text |-> <<"ls">>, timestamp |-> 1])
    /\ chat = EmptyDict
    /\ poll = [last_time |-> 1, todo |-> <<>>, busy |-> 0]
    /\ inv = <<>>
    /\ expired = {}

\* _handle_parent_reply: "if parent_id in self._pending_commands", and the
\* branch on the text
ConfirmCheck(i) ==
    /\ i \in 1..Len(inv)
    /\ inv[i].pc = "start"
    /\ LET m == chat[inv[i].msg] IN
       /\ ~TooOld(m.create_time)
       /\ m.parent_id # 0
       /\ m.parent_id \in DOMAIN pending_commands
       /\ inv' = IF LowerIn(m.text.body, YN_WORDS)
                 THEN [inv EXCEPT ![i] = [@ EXCEPT !.pc = "exec"]]
                 ELSE Adopt(i, Hint("usage_confirm"),
                            AckOf(m.parent_id, "usage_confirm"))
    /\ UNCHANGED <<now, config, store, registry, next_rid, out, mon, seen_msgs,
                   pending_commands, chat, poll, expired>>

\* _execute_pending_command: pop, and what follows it; "if not pending: return"
ConfirmPop(i) ==
    /\ i \in 1..Len(inv)
    /\ inv[i].pc = "exec"
    /\ LET m == chat[inv[i].msg] IN
       IF m.parent_id \in DOMAIN pending_commands
       THEN LET plan == execute_pending_command(LowerText(m.text.body),
                                                pending_commands[m.parent_id])
            IN /\ pending_commands' = Pop(pending_commands, m.parent_id)
               /\ inv' = Adopt(i, plan, ConfirmAcks(m.parent_id, plan))
       ELSE /\ inv' = Adopt(i, Hint(""), <<>>)
            /\ UNCHANGED pending_commands
    /\ UNCHANGED <<now, config, store, registry, next_rid, out, mon, seen_msgs,
                   chat, poll, expired>>

\* _process_reply for a message that is no reply to a held command
RouteStart(i) ==
    /\ i \in 1..Len(inv)
    /\ ~(chat[inv[i].msg].parent_id \in DOMAIN pending_commands)
    /\ ProcessReplyStart(i)

NextConfirm ==
    \/ Operator(ConfirmTexts, {"user"})
    \/ Push
    \/ \E i \in 1..MaxInvocations : ConfirmCheck(i)
    \/ \E i \in 1..MaxInvocations : ConfirmPop(i)
    \/ \E i \in 1..MaxInvocations : RouteStart(i)
    \/ \E i \in 1..MaxInvocations : SendKeys(i)

SpecConfirm == InitConfirm /\ [][NextConfirm]_vars

\* ------------------------------------------- the poll channel on its own

\* one message more than a page of list_messages holds
MaxChat == PAGE_SIZE + 1

Posted(sender) == {m \in DOMAIN chat : chat[m].sender = sender}

\* someone posts "#1 ls" in the chat after the poller has started: the
\* operator once, other members of the chat up to a page of messages
ChatPost(sender) ==
    /\ Cardinality(DOMAIN chat) < MaxChat
    /\ Cardinality(Posted(sender)) < (IF sender = "user" THEN 1 ELSE PAGE_SIZE)
    /\ chat' = Put(chat, Cardinality(DOMAIN chat) + 1, Msg(1, <<"ls">>, 0, sender))
    /\ UNCHANGED <<now, config, store, registry, next_rid, out, mon, seen_msgs,
                   pending_commands, poll, inv, expired>>

PollReplyStart == \E i \in 1..MaxInvocations : ProcessReplyStart(i)

PollSendKeys == \E i \in 1..MaxInvocations : SendKeys(i)

\* the push channel delivers nothing
NextPoll ==
    \/ \E sender \in {"user", "other"} : ChatPost(sender)
    \/ Poller
    \/ PollReplyStart
    \/ PollSendKeys

\* "while self._running": the poll thread lists again every poll_api_interval
\* and runs _process_reply to its end before it goes on
SpecPoll ==
    /\ InitIntake /\ [][NextPoll]_vars
    /\ WF_vars(Poller) /\ WF_vars(PollReplyStart) /\ WF_vars(PollSendKeys)

\* ------------------------------------------- the classifier on its own

\* the records the classifier is given: any stored mode (none, a recognized
\* one, an unrecognized one), any hook message, any screen
ClassifierMessages == HookMessages \cup {"allow", "hello", BothHintsMessage}

ClassifierInputs ==
    {[message |-> m, screen_tail |-> scr, rid |-> 1] :
        m \in ClassifierMessages, scr \in ScreenNames}
    \cup
    {[message |-> m, screen_tail |-> scr, rid |-> 1, reply_mode |-> md] :
        m \in ClassifierMessages, scr \in ScreenNames,
        md \in Modes \cup {"auto"}}

\* the housekeeping loop holds one record it is about to classify
InitClassify ==
    /\ now = 1
    /\ config \in Configs({1}, {3}, {3})
    /\ store = EmptyDict
    /\ registry = RegIdle
    /\ next_rid = 1
    /\ out = <<>>
    /\ mon \in {[pc |-> "classify", given |-> p, pending |-> p, mode |-> ""] :
                    p \in ClassifierInputs}
    /\ seen_msgs = EmptyDict
    /\ pending_commands = EmptyDict
    /\ chat = EmptyDict
    /\ poll = [last_time |-> 1, todo |-> <<>>, busy |-> 0]
    /\ inv = <<>>
    /\ expired = {}

\* _process_pending: mode = _detect_pending_mode(pending);
\* pending["reply_mode"] = mode
Classify ==
    /\ mon.pc = "classify"
    /\ LET mode == detect_pending_mode(mon.pending)
       IN mon' = [mon EXCEPT !.pc = "classified", !.mode = mode,
                             !.pending = Put(@, "reply_mode", mode)]
    /\ UNCHANGED <<now, config, store, registry, next_rid, out, seen_msgs,
                   pending_commands, chat, poll, inv, expired>>

\* _process_reply: mode = self._detect_pending_mode(pending), on the record
\* the first call wrote
Reclassify ==
    /\ mon.pc = "classified"
    /\ mon' = [mon EXCEPT !.pc = "reclassified",
                          !.mode = detect_pending_mode(mon.pending)]
    /\ UNCHANGED <<now, config, store, registry, next_rid, out, seen_msgs,
                   pending_commands, chat, poll, inv, expired>>

NextClassify ==
    \/ Classify
    \/ Reclassify

SpecClassify == InitClassify /\ [][NextClassify]_vars

\* ----------------------------------------------- the parser on its own

MaxIdx == 3

MaxLines == 3

\* the index of an option line whose numeral has more digits than int()
\* converts (sys.int_info.default_max_str_digits): int(m.group(1)) raises
LongNumeral == -1

\* labels: plain, with a follow-up keyword in capitals, and a label that
\* itself begins with the placeholder's word
ParseLabels == {<<"Foo">>, <<"Bar", "(Type something)">>, <<"option", "A">>}

\* an option line always has text: the line is stripped before it is matched,
\* and the pattern wants white space after the period
ParseAlphabet ==
    {Opt(i, t) : i \in 0..MaxIdx, t \in ParseLabels}
    \cup {Opt(LongNumeral, <<"Foo">>), Txt(<<"d1">>), Txt(<<"d2">>), Blank}

\* screen_tail.split("\n"): at least one line
ParseInputs == UNION {[1..n -> ParseAlphabet] : n \in 1..MaxLines}

InitParse ==
    /\ now = 1
    /\ config \in Configs({1}, {3}, {3})
    /\ store = EmptyDict
    /\ registry = RegIdle
    /\ next_rid = 1
    /\ out = <<>>
    /\ mon \in {[pc |-> "parse", lines |-> l, parsed |-> EmptyDict] :
                    l \in ParseInputs}
    /\ seen_msgs = EmptyDict
    /\ pending_commands = EmptyDict
    /\ chat = EmptyDict
    /\ poll = [last_time |-> 1, todo |-> <<>>, busy |-> 0]
    /\ inv = <<>>
    /\ expired = {}

\* int(m.group(1)) on some option line raises ValueError
ParseRaises(lines) ==
    \E k \in 1..Len(lines) :
        lines[k].kind = "opt" /\ lines[k].idx = LongNumeral

\* parsed = parse_selection_screen(screen)
Parse ==
    /\ mon.pc = "parse"
    /\ mon' = IF ParseRaises(mon.lines)
              THEN [mon EXCEPT !.pc = "raised"]
              ELSE [mon EXCEPT !.pc = "parsed",
                               !.parsed = parse_selection_screen(mon.lines)]
    /\ UNCHANGED <<now, config, store, registry, next_rid, out, seen_msgs,
                   pending_commands, chat, poll, inv, expired>>

SpecParse == InitParse /\ [][Parse]_vars

\* ------------------------------------------------- the manager's tasks

\* In this specification the program is the task manager: store is its data
\* directory (tasks.json -> the list json.dump wrote) and mon holds the
\* position and the locals of its one thread.

MaxDay == 2

MaxSecond == 1

\* datetime values: naive (datetime.now()) and aware ones
DateTimes ==
    [day : 1..MaxDay, second : 0..MaxSecond, microsecond : 0..1,
     utcoffset : {"naive", "+00:00", "+08:00"}]

\* datetime.isoformat(timespec='seconds'): the fraction is never written
isoformat_seconds(dt) ==
    <<NumTok(dt.day), "T", NumTok(dt.second)>>
    \o (IF dt.utcoffset # "naive" THEN <<dt.utcoffset>> ELSE <<>>)

\* datetime.isoformat(): date, "T", time, the fraction only when the
\* microsecond is not 0, the offset only when the value is aware
isoformat(dt) ==
    <<NumTok(dt.day), "T", NumTok(dt.second)>>
    \o (IF dt.microsecond # 0 THEN <<".", NumTok(dt.microsecond)>> ELSE <<>>)
    \o (IF dt.utcoffset # "naive" THEN <<dt.utcoffset>> ELSE <<>>)

\* datetime.fromisoformat(): reads the parts that are there
fromisoformat(s) ==
    LET frac == Len(s) >= 5 /\ s[4] = "."
        rest == SubSeq(s, IF frac THEN 6 ELSE 4, Len(s))
    IN [day |-> NumOf(s[1]),
        second |-> NumOf(s[3]),
        microsecond |-> IF frac THEN NumOf(s[5]) ELSE 0,
        utcoffset |-> IF rest = <<>> THEN "naive" ELSE rest[1]]

Statuses == {"pending", "running", "completed", "failed"}

Tasks ==
    [task_id : {"ml"}, name : {"train", "test"}, cwd : {"/tmp"},
     description : {"", "about"}, status : Statuses, created_at : DateTimes]

to_dict(t) ==
    [task_id |-> t.task_id, name |-> t.name, status |-> t.status,
     cwd |-> t.cwd, description |-> t.description,
     created_at |-> isoformat(t.created_at)]

from_dict(data) ==
    [task_id |-> data["task_id"],
     name |-> data["name"],
     status |-> Get(data, "status", "pending"),
     cwd |-> data["cwd"],
     description |-> Get(data, "description", ""),
     created_at |-> fromisoformat(data["created_at"])]

\* a tasks.json entry written without the optional keys
PartialDicts ==
    {Del(to_dict(t), k) : t \in Tasks, k \in {"status", "description"}}
    \cup {Del(Del(to_dict(t), "status"), "description") : t \in Tasks}

\* either the manager holds one task it is about to save, or it starts on a
\* tasks.json that is already there
InitTask ==
    /\ now = 1
    /\ config \in Configs({1}, {3}, {3})
    /\ \/ /\ store = EmptyDict
          /\ mon \in {[pc |-> "save", tasks |-> <<t>>, loaded |-> <<>>] :
                          t \in Tasks}
       \/ /\ store \in {Put(EmptyDict, "tasks.json", <<d>>) : d \in PartialDicts}
          /\ mon = [pc |-> "load", tasks |-> <<>>, loaded |-> <<>>]
    /\ registry = RegIdle
    /\ next_rid = 1
    /\ out = <<>>
    /\ seen_msgs = EmptyDict
    /\ pending_commands = EmptyDict
    /\ chat = EmptyDict
    /\ poll = [last_time |-> 1, todo |-> <<>>, busy |-> 0]
    /\ inv = <<>>
    /\ expired = {}

\* DataStore.save_tasks
save_tasks ==
    /\ mon.pc = "save"
    /\ store' = Put(store, "tasks.json",
                    [k \in 1..Len(mon.tasks) |-> to_dict(mon.tasks[k])])
    /\ mon' = [mon EXCEPT !.pc = "load"]
    /\ UNCHANGED <<now, config, registry, next_rid, out, seen_msgs,
                   pending_commands, chat, poll, inv, expired>>

\* DataStore.load_tasks
load_tasks ==
    /\ mon.pc = "load"
    /\ mon' = [mon EXCEPT
                 !.pc = "loaded",
                 !.loaded = IF "tasks.json" \in DOMAIN store
                            THEN [k \in 1..Len(store["tasks.json"]) |->
                                     from_dict(store["tasks.json"][k])]
                            ELSE <<>>]
    /\ UNCHANGED <<now, config, store, registry, next_rid, out, seen_msgs,
                   pending_commands, chat, poll, inv, expired>>

NextTask ==
    \/ save_tasks
    \/ load_tasks

SpecTask == InitTask /\ [][NextTask]_vars

\* ------------------------------------------------------- failed notifications

\* records are due for notification as soon as they are seen (wait_minutes 0)
InitRetry == InitWith(Configs({0}, {3}, {3}), {RegIdle})

SpecRetry == InitRetry /\ [][NextLive]_vars /\ WF_vars(Monitor) /\ SF_vars(Tick)

\* the housekeeping pass is about to send the card of record r
Attempting(r) == mon.pc = "notify" /\ mon.pending.rid = r

\* C21 (as stated): the sends of the card of one record are bounded in number:
\* from some moment on there is no further attempt for it, whether the
\* transport ever accepts the card or not.
C21_SendAttemptsBounded ==
    \A r \in 1..MaxRecords : <>[](~Attempting(r))

\* -------------------------------------------------------------- loops go on

\* C22 (as stated): no error inside an iteration ends the housekeeping loop:
\* whatever happened, the loop is at one of its steps or asleep between two
\* iterations.
C22_HousekeepingNeverEnds == mon.pc \in {"idle", "scan", "notify", "dump"}

\* ------------------------------------------------------------ unmatched replies

\* invocation i handles a reply whose parent is neither a confirmation message
\* with a PendingCommand nor the card of a record in the store
Unmatched(i) ==
    LET m == chat[inv[i].msg] IN
    /\ m.parent_id # 0
    /\ m.parent_id \notin DOMAIN pending_commands
    /\ FindByParent(m.parent_id) = {}
    /\ ~(now - m.create_time > config.max_message_age)

\* C23 (as stated, with any answer taken for "no matching request found"): an
\* unmatched reply plans no terminal call and the operator is sent an answer.
C23_UnmatchedReplyAnswered ==
    [][\A i \in 1..Len(inv) :
          (StartStep(i) /\ Unmatched(i))
              => /\ inv'[i].keys = <<>>
                 /\ inv'[i].pc = "done"
                 /\ inv'[i].acks # <<>>]_vars

\* ------------------------------------------------------------ acknowledgements

\* the last step of a handler that resolves or discards its record
ResolveStep(i) ==
    inv[i].pc = "finish" /\ inv'[i].pc = "done" /\ inv[i].fin = "remove"

ToTextInput(i) ==
    /\ Addressed(inv[i].msg) # {}
    /\ \A f \in Addressed(inv[i].msg) : detect_pending_mode(store[f]) = "text_input"

\* what the handler decides for a text_input record: nothing and the deletion
\* for the cancel word, else the text, the submit key and the deletion
TextInputPlan(i) ==
    LET f == inv'[i].file
        w == inv'[i].pending.window_id
    IN /\ f \in Addressed(inv[i].msg)
       /\ inv'[i].fin = "remove"
       /\ IF LowerIn(BodyOf(i), TEXT_INPUT_CANCEL_WORDS)
          THEN inv'[i].pc = "finish" /\ inv'[i].keys = <<>>
          ELSE /\ inv'[i].pc = "act"
               /\ inv'[i].keys = <<SendText(w, BodyOf(i)), SendText(w, CR)>>
               /\ w = store[f].window_id

Footer(p) ==
    ScreenTokens(ScreenText(p.screen_tail)) \cap SELECTION_SCREEN_HINTS # {}

InputHint(p) == MessageHints(p.message) \cap TEXT_INPUT_MESSAGE_HINTS # {}

PermissionHint(p) == MessageHints(p.message) \cap PERMISSION_MESSAGE_HINTS # {}

AsksToReply(p) ==
    {ConfirmNeededTok, ReplyInstrTok} \subseteq ScreenTokens(ScreenText(p.screen_tail))

StoredMode(p) == "reply_mode" \in DOMAIN p /\ p.reply_mode \in Modes

\* C26: the classifier returns a mode for every record, by this priority: a
\* recognized stored mode as it is; else selection when the screen tail holds
\* a selection footer, whatever the hook message says; else text_input on an
\* input phrase in the message; else permission on a permission phrase; else
\* text_input when the tail holds both the confirmation-needed and the
\* reply-instruction phrase; else permission. Classifying the record that
\* carries the result returns the same mode.
C26_ClassifierPriority ==
    LET p == mon.given
    IN /\ mon.pc \in {"classified", "reclassified"} =>
            /\ mon.mode \in Modes
            /\ mon.pending.reply_mode = mon.mode
            /\ mon.mode =
                 IF StoredMode(p) THEN p.reply_mode
                 ELSE IF Footer(p) THEN "selection"
                 ELSE IF InputHint(p) THEN "text_input"
                 ELSE IF PermissionHint(p) THEN "permission"
                 ELSE IF AsksToReply(p) THEN "text_input"
                 ELSE "permission"

\* a record without a stored mode, a permission phrase in its message and a
\* selection footer on its screen, classified twice
C26_Witness ==
    /\ mon.pc = "reclassified"
    /\ ~StoredMode(mon.given)
    /\ PermissionHint(mon.given)
    /\ Footer(mon.given)
    /\ mon.mode = "selection"

\* ---------------------------------------------------------------- C27

OptionLines(lines) == {k \in 1..Len(lines) : lines[k].kind = "opt"}

\* option lines numbered 1..n and nothing else
OnlyConsecutiveOptions(lines) ==
    \A k \in 1..Len(lines) : lines[k].kind = "opt" /\ lines[k].idx = k

FollowUp(label) ==
    \E j \in 1..Len(label) : Lower(label[j]) \in SELECTION_TEXT_INPUT_KEYWORDS

\* C27: for a screen tail made only of option lines numbered 1..n
\* consecutively, with labels, the parser returns exactly those n labels in
\* order, the set of indices whose label holds a follow-up keyword in any
\* case, and an empty question.
C27_ConsecutiveOptionsParsed ==
    (mon.pc \in {"parsed", "raised"} /\ OnlyConsecutiveOptions(mon.lines)) =>
        /\ mon.pc = "parsed"
        /\ mon.parsed.options = [k \in 1..Len(mon.lines) |-> mon.lines[k].text]
        /\ mon.parsed.text_input_indices =
               {k \in 1..Len(mon.lines) : FollowUp(mon.lines[k].text)}
        /\ mon.parsed.question = <<>>

\* three consecutive option lines, the second with a keyword in capitals
C27_Witness ==
    /\ mon.pc = "parsed"
    /\ Len(mon.lines) = 3
    /\ OnlyConsecutiveOptions(mon.lines)
    /\ mon.parsed.text_input_indices = {2}
    /\ Len(mon.parsed.options) = 3

\* ---------------------------------------------------------------- C28

SeenIndices(lines) == {lines[k].idx : k \in OptionLines(lines)}

HighestIndex(lines) ==
    IF SeenIndices(lines) = {} THEN 0
    ELSE CHOOSE n \in SeenIndices(lines) : \A x \in SeenIndices(lines) : x <= n

\* the option line k is the first of its index and no higher index precedes
\* it: its label is the one the list took
LabelTaken(lines, k) ==
    /\ k \in OptionLines(lines)
    /\ lines[k].idx >= 1
    /\ \A j \in OptionLines(lines) : j < k => lines[j].idx < lines[k].idx

\* C28: the parsed option list is as long as the highest option index seen;
\* an index that no option line carried holds a placeholder, or that index's
\* accumulated description when there is one; a label that an option line
\* gave to the list is never replaced.
C28_LabelsKeptGapsFilled ==
    mon.pc = "parsed" =>
        LET lines == mon.lines
            parsed == mon.parsed
        IN /\ Len(parsed.options) = HighestIndex(lines)
           /\ \A n \in 1..Len(parsed.options) :
                n \notin SeenIndices(lines) =>
                    parsed.options[n] =
                        IF n \in DOMAIN parsed.descriptions
                        THEN parsed.descriptions[n] ELSE Placeholder(n)
           /\ \A k \in 1..Len(lines) :
                LabelTaken(lines, k) =>
                    parsed.options[lines[k].idx] = lines[k].text

\* ---------------------------------------------------------------- C29

NonBlank(lines) == SelectSeq(lines, LAMBDA l : l.kind # "blank")

\* C29: the parser raises on no tail, and on a tail without an option line
\* it returns an empty option list and, as the question, the non-blank lines
\* of the tail.
C29_NeverRaisesContextKept ==
    /\ mon.pc # "raised"
    /\ (mon.pc = "parsed" /\ OptionLines(mon.lines) = {}) =>
            /\ mon.parsed.options = <<>>
            /\ mon.parsed.question = NonBlank(mon.lines)

\* ---------------------------------------------------------------- C30

\* C30: a task read back from the dict it was written to has the same
\* task_id, name, cwd, description, status and created_at; a dict without a
\* status is read as 'pending', one without a description as ''.
C30_TaskRoundTrip ==
    mon.pc = "loaded" =>
        /\ \A k \in 1..Len(mon.tasks) :
             /\ Len(mon.loaded) = Len(mon.tasks)
             /\ mon.loaded[k].task_id = mon.tasks[k].task_id
             /\ mon.loaded[k].name = mon.tasks[k].name
             /\ mon.loaded[k].cwd = mon.tasks[k].cwd
             /\ mon.loaded[k].description = mon.tasks[k].description
             /\ mon.loaded[k].status = mon.tasks[k].status
             /\ mon.loaded[k].created_at = mon.tasks[k].created_at
        /\ \A k \in 1..Len(mon.loaded) :
             LET data == store["tasks.json"][k]
             IN /\ "status" \notin DOMAIN data =>
                      mon.loaded[k].status = "pending"
                /\ "description" \notin DOMAIN data =>
                      mon.loaded[k].description = ""

\* a running task with a description, an aware creation time and a fraction
\* of a second, saved and loaded
C30_Witness ==
    /\ mon.pc = "loaded"
    /\ Len(mon.tasks) = 1
    /\ mon.tasks[1].status = "running"
    /\ mon.tasks[1].description # ""
    /\ mon.tasks[1].created_at.microsecond # 0
    /\ mon.tasks[1].created_at.utcoffset = "+08:00"
    /\ mon.loaded = mon.tasks

\* ---------------------------------------------------------------- C40

\* C40: every index in the parser's text-input index set and every key of
\* its description map is a position of the option list, 1..len(options).
C40_IndicesWithinOptions ==
    mon.pc = "parsed" =>
        LET positions == 1..Len(mon.parsed.options)
        IN /\ mon.parsed.text_input_indices \subseteq positions
           /\ DOMAIN mon.parsed.descriptions \subseteq positions

\* ---------------------------------------------------------------- C32

\* invocation i takes a step
Acts(i) == inv'[i] # inv[i]

StandaloneAnswer(i) == Bare(inv[i].msg) /\ LowerIn(BodyOf(i), YN_WORDS)

\* C32: the handling of a standalone y/n (no parent id, no #N) sends no
\* keystroke to any terminal and leaves every record of the store as it is;
\* all it sends is the hint to reply to the card or to write #N y / #N n.
C32_StandaloneAnswerHintOnly ==
    [][\A i \in 1..Len(inv) :
          (Acts(i) /\ StandaloneAnswer(i))
              => /\ store' = store
                 /\ pending_commands' = pending_commands
                 /\ inv'[i].keys = <<>>
                 /\ inv'[i].sent = <<>>
                 /\ \A k \in 1..Len(inv'[i].acks) :
                        inv'[i].acks[k] = [to |-> 0, what |-> "reply_to_card_hint"]]_vars

\* a standalone "n" handled to its end while a notified record waits
C32_Witness ==
    /\ NotifiedFiles # {}
    /\ \E i \in 1..Len(inv) :
          /\ StandaloneAnswer(i)
          /\ Lower(BodyOf(i)[1]) \in NO_WORDS
          /\ inv[i].pc = "done"
          /\ Len(inv[i].acks) = 1

\* ---------------------------------------------------------------- C31

\* k is a choice the notified selection record f offers
ValidChoice(f, k) ==
    /\ detect_pending_mode(store[f]) = "selection"
    /\ Get(store[f], "notified", FALSE)
    /\ k \in 1..Get(store[f], "option_count", 0)

NeedsText(f, k) == k \in Get(store[f], "text_input_options", {})

Submit(w) == SendKey(w, "enter")

EscByWindow(i, f) ==
    LET m == chat[inv[i].msg] IN
    /\ m.parent_id = 0 /\ m.text.addr # 0
    /\ LowerIn(m.text.body, {"esc"})
    /\ f \in FindByWindow(m.text.addr)
    /\ detect_pending_mode(store[f]) = "selection"

\* C33: "#N esc" sent while window N has a notified selection record sends a
\* cancel key to N and deletes that record, as the reply "esc" to the card
\* does.
C33_EscByWindowCancels ==
    [][\A i \in 1..Len(inv) : \A f \in Files :
          (StartStep(i) /\ EscByWindow(i, f))
              => /\ Len(inv'[i].keys) = 1
                 /\ inv'[i].keys[1].wid = store[f].window_id
                 /\ inv'[i].keys[1].how = "key"
                 /\ inv'[i].file = f
                 /\ inv'[i].fin = "remove"]_vars

\* ---------------------------------------------------------------- C34

\* the step is one run of the push callback that hands a message on
CallbackStep ==
    /\ Len(inv') = Len(inv) + 1
    /\ inv'[Len(inv')].via = "ws"

\* C34: the push callback makes no terminal call, sends nothing and does not
\* touch the pending store: it records the message's id in the ledger and
\* starts a worker for it, and returns before that worker has done anything,
\* whatever the other workers are doing.
C34_CallbackOnlyDispatches ==
    [][CallbackStep =>
          LET new == inv'[Len(inv')] IN
          /\ store' = store
          /\ out' = out
          /\ pending_commands' = pending_commands
          /\ registry' = registry
          /\ new.pc = "start"
          /\ new.keys = <<>> /\ new.sent = <<>> /\ new.acks = <<>>
          /\ new.file = ""
          /\ seen_msgs' = Put(seen_msgs, new.msg, now)
          /\ \A j \in 1..Len(inv) : inv'[j] = inv[j]]_vars

\* the callback has returned for a second message while the worker of the
\* first is still between its terminal calls and its file removal
C34_Witness ==
    \E i, j \in 1..Len(inv) :
        /\ i < j
        /\ inv[i].pc = "finish"
        /\ inv[j].via = "ws" /\ inv[j].pc = "start"

\* ---------------------------------------------------------------- C35

\* invocation i handles a reply to the confirmation message c
RepliesTo(i, c) == chat[inv[i].msg].parent_id = c

\* invocation i has decided to type, or has typed, into a terminal
Types(i) == inv[i].keys # <<>> \/ inv[i].sent # <<>>

\* C35: the text held under one confirmation message is typed at most once:
\* of the replies to that message, however they interleave, at most one takes
\* the command; the y or n that takes it removes it; and a reply handled when
\* the command is gone types nothing.
C35_CommandSentAtMostOnce ==
    /\ [](\A i, j \in 1..Len(inv) :
             (i # j /\ chat[inv[i].msg].parent_id # 0
                /\ RepliesTo(j, chat[inv[i].msg].parent_id))
                 => ~(Types(i) /\ Types(j)))
    /\ [][\A i \in 1..Len(inv) :
             LET c == chat[inv[i].msg].parent_id IN
             /\ (inv[i].pc = "exec" /\ inv'[i].pc # "exec"
                   /\ c \in DOMAIN pending_commands)
                    => c \notin DOMAIN pending_commands'
             /\ (Acts(i) /\ c # 0 /\ c \notin DOMAIN pending_commands
                   /\ inv[i].pc \in {"start", "exec"})
                    => inv'[i].keys = <<>>]_vars
    /\ [][DOMAIN pending_commands' \subseteq DOMAIN pending_commands]_vars

\* two yes replies to confirmation 1 that both found the command held: one
\* typed the text, the other came back from the pop with nothing
C35_Witness ==
    \E i, j \in 1..Len(inv) :
        /\ i # j
        /\ RepliesTo(i, 1) /\ RepliesTo(j, 1)
        /\ LowerIn(BodyOf(i), YES_WORDS) /\ LowerIn(BodyOf(j), YES_WORDS)
        /\ inv[i].pc = "done" /\ inv[j].pc = "done"
        /\ inv[i].sent = <<SendText(1, <<"ls">>), SendText(1, CR)>>
        /\ inv[j].sent = <<>> /\ inv[j].acks = <<>>

\* ---------------------------------------------------------------- C38

\* invocation i has told the operator that the held text was force-sent
SaysForceSent(i) ==
    \E k \in 1..Len(inv[i].acks) : inv[i].acks[k].what = "force_sent"

\* C38: the success acknowledgement of a confirmed command is sent only when
\* the held text was sent to the terminal; with no socket for the window the
\* operator gets the failure message alone.
C38_SuccessOnlyWhenSent ==
    \A i \in 1..Len(inv) :
        SaysForceSent(i) =>
            /\ inv[i].sent # <<>>
            /\ \A k \in 1..Len(inv[i].acks) : inv[i].acks[k].what # "no_socket"

\* ---------------------------------------------------------------- C39

\* the terminal calls of invocation i that type a text over the limit
OverLong(i) ==
    {k \in 1..Len(inv[i].sent) :
        /\ inv[i].sent[k].how = "text"
        /\ TextLen(inv[i].sent[k].val) > config.command_max_length}

\* C39: no "#N" text longer than command_max_length is typed into a terminal,
\* whether the window is idle, busy or has a notified pending interaction.
C39_NoOverlongTextSent ==
    \A i \in 1..Len(inv) :
        chat[inv[i].msg].text.addr # 0 => OverLong(i) = {}

\* ---------------------------------------------------------------- C36

\* a step of the daemon (not of the producer, which numbers its records) that
\* leaves a record in file f which was not there, or not the same, before
DaemonWrites(f) ==
    /\ next_rid' = next_rid
    /\ f \in DOMAIN store'
    /\ f \notin DOMAIN store \/ store'[f] # store[f]

\* C36: a write-back of the daemon (the notification metadata of the
\* housekeeping pass, the escalation rewrite of the reply router) never
\* re-creates a record that was deleted since the daemon read it, and never
\* overwrites a record the producer put in its place since.
C36_NoResurrectionNoLostUpdate ==
    [][\A f \in Files :
          DaemonWrites(f) =>
              /\ f \in DOMAIN store
              /\ store[f].rid = store'[f].rid]_vars

\* ---------------------------------------------------------------- C37

\* message m has been handed to the reply router by the poller
HandedByPoll(m) == \E i \in 1..Len(inv) : inv[i].msg = m /\ inv[i].via = "poll"

\* message m is in the chat, from the allowed user, and not older than the
\* poll cursor
AheadOfCursor(m) ==
    /\ m \in DOMAIN chat
    /\ SenderAllowed(chat[m].sender)
    /\ chat[m].create_time >= poll.last_time

\* C37: with the push channel silent, every text message of the allowed user
\* created after the poller started (here: at or after the poll cursor) is
\* eventually handed to the reply router by the poller; the messages the
\* poller skips in a page do not stall it.
C37_PollLosesNoReply ==
    \A m \in 1..MaxChat : AheadOfCursor(m) ~> HandedByPoll(m)

====
